---- MODULE Spec2Model ----
(***************************************************************************)
(* A model of the T.H.E.A. core: UniversalMemory (graph + vector store +   *)
(* time store), the CognitiveService framework, and the Orchestrator's     *)
(* Task/Report routing.                                                    *)
(*                                                                         *)
(* asyncio runs one coroutine at a time and switches only at an await that *)
(* really suspends, so every action below is the code between two          *)
(* suspension points.                                                      *)
(***************************************************************************)
EXTENDS Integers, Sequences, FiniteSets, TLC

\* Python's None where an id is expected (uuid strings are modelled as positive integers).
Null == 0

(***************************************************************************)
(* Bounds of the model                                                     *)
(***************************************************************************)
\* Number of execute_single_task calls the callers of the framework make.
MaxTasks == 3
\* Number of jobs pushed on the Redis crystallization queue.
MaxJobs == 1

(***************************************************************************)
(* Small helpers                                                           *)
(***************************************************************************)
Put(f, k, v) == [x \in (DOMAIN f) \cup {k} |-> IF x = k THEN v ELSE f[x]]

Drop(f, k) == [x \in (DOMAIN f) \ {k} |-> f[x]]

\* dict.get(key, default)
Get(d, k, default) == IF k \in DOMAIN d THEN d[k] ELSE default

\* str.strip() leaves nothing: the text is empty or whitespace only.
IsBlank(text) == text \in {"", " "}

\* A text too long to write out, and the number of its characters.
LongText == "long answer"

LongTextChars == 18000

\* len(str): every text of the model is written out but LongText.
len(text) == IF text = LongText THEN LongTextChars ELSE Len(text)

Min(S) == CHOOSE x \in S : \A y \in S : x <= y

RECURSIVE SeqSum(_)
SeqSum(s) == IF s = <<>> THEN 0 ELSE Head(s) + SeqSum(Tail(s))

(***************************************************************************)
(* memory/schema.yaml is not among the sources: the node types are the     *)
(* ones the specification's data model lists and the code records.         *)
(***************************************************************************)
SchemaNodeTypes ==
    {"UserImpulse", "InstinctiveResponseNode", "TaskNode", "ReportNode",
     "SearchPlanNode", "ConceptNode", "FactNode", "KnowledgeCrystalNode",
     "FinalResponseNode", "DialogueTurnNode", "ConversationSummaryNode",
     "ThemeNode"}

\* validate_node accepting every node type.
validate_node_any(node_type, attributes) == TRUE

\* Schema.validate_node
validate_node(node_type, attributes) == node_type \in SchemaNodeTypes

\* Schema.validate_edge
validate_edge(source_type, target_type, edge_label) == TRUE

(***************************************************************************)
(* Writing `x \in {e}` binds x to the value of e, computed once.           *)
(*                                                                         *)
(* UniversalMemory.  graph: nodes (id -> attribute dict), edges (one per   *)
(* ordered pair, DiGraph), order (networkx iterates nodes in insertion     *)
(* order; kept, per content, for the nodes a lookup by content can match); *)
(* vector_store: the ids upserted in each collection; time_store: the      *)
(* chronicle dict, timestamp -> event.                                     *)
(***************************************************************************)
\* Strings the code looks nodes up by (get_node_by_attribute("content", ...)).
ConceptNames == {"coffee", "press"}

EmptyMemory ==
    [nodes |-> <<>>, edges |-> {}, order |-> [c \in ConceptNames |-> <<>>],
     vectors |-> {}, chronicle |-> <<>>]

\* A node networkx creates implicitly as the endpoint of add_edge: no attributes.
BareNode == [type |-> "None", content |-> "None", timestamp |-> Null, attrs |-> <<>>]

has_node(M, n) == n # Null /\ n \in DOMAIN M.nodes

\* nx.DiGraph.add_edge(u, v, label=...): creates missing endpoints, replaces the
\* label of an existing (u, v) edge.
graph_add_edge(M, u, v, label) ==
    LET withU == IF u \in DOMAIN M.nodes THEN M.nodes ELSE Put(M.nodes, u, BareNode)
        withV == IF v \in DOMAIN withU THEN withU ELSE Put(withU, v, BareNode)
    IN [M EXCEPT !.nodes = withV,
                 !.edges = {e \in M.edges : ~(e.src = u /\ e.dst = v)}
                           \cup {[src |-> u, dst |-> v, label |-> label]}]

successors(M, n) == {e.dst : e \in {x \in M.edges : x.src = n}}

predecessors(M, n) == {e.src : e \in {x \in M.edges : x.dst = n}}

\* VectorStore._get_collection
get_collection(node_type) ==
    IF node_type \in {"UserImpulse", "FinalResponseNode", "FactNode", "ReportNode", "QueryNode"}
    THEN "experience"
    ELSE IF node_type = "ConceptNode" THEN "concept"
    ELSE IF node_type = "KnowledgeCrystalNode" THEN "insight"
    ELSE "None"

\* VectorStore.add: a failure of the encoder or of the upsert (enc_ok = FALSE) is
\* logged and swallowed.
vector_add(V, node_id, node_type, text, enc_ok) ==
    IF get_collection(node_type) = "None" \/ IsBlank(text) THEN V
    ELSE IF enc_ok
         THEN V \cup {[collection |-> get_collection(node_type), id |-> node_id]}
         ELSE V

\* TimeStore.record: the chronicle is a dict keyed by the timestamp.
time_record(C, node_id, timestamp, node_type) ==
    Put(C, timestamp, [node_id |-> node_id, type |-> node_type])

\* TimeStore.query_by_range
query_by_range(C, start_time, end_time) ==
    {C[ts].node_id : ts \in {t \in DOMAIN C : start_time <= t /\ t <= end_time}}

\* UniversalMemory.get_node_by_attribute: the first node, in iteration order, whose
\* attribute has the value; Null when there is none.
RECURSIVE FirstWith(_, _, _)
FirstWith(M, s, value) ==
    IF s = <<>> THEN Null
    ELSE IF M.nodes[Head(s)].content = value THEN Head(s)
    ELSE FirstWith(M, Tail(s), value)

get_node_by_content(M, value) ==
    IF value \in ConceptNames /\ FirstWith(M, M.order[value], value) # Null
    THEN FirstWith(M, M.order[value], value)
    ELSE IF \E n \in DOMAIN M.nodes : M.nodes[n].content = value
         THEN Min({n \in DOMAIN M.nodes : M.nodes[n].content = value})
         ELSE Null

get_node_by_task_id(M, task_id) ==
    IF \E n \in DOMAIN M.nodes : Get(M.nodes[n].attrs, "task_id", Null) = task_id
    THEN Min({n \in DOMAIN M.nodes : Get(M.nodes[n].attrs, "task_id", Null) = task_id})
    ELSE Null

\* The links record_entry writes: for each directive, in order, an edge to a target
\* that exists; a directive that is None or whose target is missing is skipped.
RECURSIVE write_links(_, _, _, _)
\* The links written without asking whether the target is in the graph
\* (add_edge creates a missing endpoint).
write_links_unchecked(M, node_id, node_type, links) ==
    IF links = <<>> THEN M
    ELSE write_links(IF Head(links).target_id # Null
                     THEN graph_add_edge(M, node_id, Head(links).target_id, Head(links).label)
                     ELSE M,
                     node_id, node_type, Tail(links))

write_links(M, node_id, node_type, links) ==
    IF links = <<>> THEN M
    ELSE CHOOSE written \in
             {write_links(M1, node_id, node_type, Tail(links)) :
                M1 \in {IF /\ Head(links).target_id # Null
                           /\ has_node(M, Head(links).target_id)
                           /\ validate_edge(node_type, M.nodes[Head(links).target_id].type,
                                            Head(links).label)
                        THEN graph_add_edge(M, node_id, Head(links).target_id,
                                            Head(links).label)
                        ELSE M}} : TRUE

\* A LinkDirective, and the absent one (`[task.link_to] if task.link_to else []`).
LinkDirective(target_id, label) == [target_id |-> target_id, label |-> label]

NoLink == [target_id |-> Null, label |-> "None"]

\* The TaskNode recorded with no links at all.
LinkList_dropped(link_to) == <<>>

LinkList(link_to) == IF link_to = NoLink THEN <<>> ELSE <<link_to>>

\* UniversalMemory.record_entry.  env is what the environment answers during the
\* call: env.id and env.timestamp (TimeStore.get_new_timestamped_id: uuid4 and the
\* wall clock), env.enc_ok (whether the encoder and the vector upsert succeed).
\* The result is the memory after the call and the returned id (Null for None).
record_entry(M, env, node_type, content, attributes, links) ==
    IF ~validate_node(node_type, attributes)
    THEN [memory |-> M, id |-> Null]
    ELSE CHOOSE recorded \in
             {[memory |-> [M2 EXCEPT
                             !.vectors = vector_add(@, env.id, node_type, content, env.enc_ok),
                             !.chronicle = time_record(@, env.id, env.timestamp, node_type)],
               id |-> env.id] :
                M2 \in {write_links(
                           [M EXCEPT !.nodes = Put(M.nodes, env.id,
                                                   [type |-> node_type, content |-> content,
                                                    timestamp |-> env.timestamp,
                                                    attrs |-> attributes]),
                                     !.order = IF content \in ConceptNames
                                               THEN [M.order EXCEPT ![content] = Append(@, env.id)]
                                               ELSE M.order],
                           env.id, node_type, links)}} : TRUE

\* The environment of a record_entry call when nothing goes wrong: a fresh uuid, a
\* timestamp of its own and a working encoder.  The fresh id is taken from the block
\* of ids the caller's write owns (uuid4 is unique, and nothing reads its value).
Fresh(M, base) ==
    base + Cardinality({n \in DOMAIN M.nodes : base <= n /\ n <= base + 9})

NormalEnv(M, base) ==
    [id |-> Fresh(M, base), timestamp |-> Fresh(M, base), enc_ok |-> TRUE]

\* UniversalMemory.get_or_create_concept_node
get_or_create_concept_node(M, env, concept_name) ==
    CHOOSE found \in
        {IF existing # Null /\ M.nodes[existing].type = "ConceptNode"
         THEN [memory |-> M, id |-> existing]
         ELSE record_entry(M, env, "ConceptNode", concept_name, <<>>, <<>>) :
            existing \in {get_node_by_content(M, concept_name)}} : TRUE

(***************************************************************************)
(* Task and Report (events.py)                                             *)
(***************************************************************************)
\* Task.task_id and Task.correlation_id default to fresh uuids: the correlation id
\* of task t is drawn from a range of its own.
CorrelationOf(task_id) == 500 + task_id

Task(type, payload, task_id, link_to) ==
    [type |-> type, payload |-> payload, correlation_id |-> CorrelationOf(task_id),
     task_id |-> task_id, link_to |-> link_to]

Report(status, source_task_type, data, correlation_id, source_task_id) ==
    [status |-> status, source_task_type |-> source_task_type, data |-> data,
     correlation_id |-> correlation_id, source_task_id |-> source_task_id,
     link_to |-> NoLink, report_node_id |-> Null]

\* utils/reporting.create_report_meta, unpacked into Report(...)
ReportFor(task, status, data) ==
    Report(status, task.type, data, task.correlation_id, task.task_id)

\* The value of a variable that holds no Report yet.
NoReport == Report("None", "None", <<>>, Null, Null)

\* json.dumps of a payload or of a report's data, as record_entry stores it.
json_dumps(data) ==
    IF "error" \in DOMAIN data THEN "{error}"
    ELSE IF "text" \in DOMAIN data THEN "{text}"
    ELSE IF "queries" \in DOMAIN data THEN "{queries}"
    ELSE IF "summary_text" \in DOMAIN data THEN "{summary_text}"
    ELSE IF "impulse_id" \in DOMAIN data THEN "{impulse_id}"
    ELSE IF "message" \in DOMAIN data THEN "{message}"
    ELSE IF "found_nodes" \in DOMAIN data THEN "{found_nodes}"
    ELSE IF "impulse_text" \in DOMAIN data THEN "{impulse_text, history}"
    ELSE IF "memory_package" \in DOMAIN data THEN "{original_impulse, memory_package}"
    ELSE IF "original_impulse" \in DOMAIN data THEN "{original_impulse}"
    ELSE IF "request_payload" \in DOMAIN data THEN "{request_payload}"
    ELSE IF "items_to_compress" \in DOMAIN data THEN "{items_to_compress}"
    ELSE "{}"

(***************************************************************************)
(* The services main.py constructs and registers, and the routing table    *)
(* register_service builds from get_supported_tasks.                       *)
(***************************************************************************)
Services ==
    {"EnrichmentPlannerService", "SimpleExecutorService", "SynthesisService",
     "MemoryRecallService", "ReflectionService", "CrystallizerService",
     "MemoryCompressorService"}

get_supported_tasks(service) ==
    CASE service = "EnrichmentPlannerService" -> {"create_enrichment_plan"}
      [] service = "SimpleExecutorService" -> {"generate_instinctive_response"}
      [] service = "SynthesisService" ->
             {"synthesize_final_response", "synthesize_acknowledgement"}
      [] service = "MemoryRecallService" -> {"recall_request"}
      [] service = "ReflectionService" -> {"run_deep_reflection"}
      [] service = "CrystallizerService" -> {"crystallize_dialogue"}
      [] service = "MemoryCompressorService" -> {"compress_memory_chunk"}
      [] service = "FactIngestionService" -> {"ingest_fact"}
      [] OTHER -> {}

\* A task type no service declares.
UnroutedType == "unknown_task"

TaskTypes == UNION {get_supported_tasks(s) : s \in Services} \cup {UnroutedType}

\* Orchestrator.register_service for every service of `registered`: the routing
\* table, task type -> service ("None": no entry).
RoutingTable(registered) ==
    [t \in TaskTypes |->
        IF \E s \in registered : t \in get_supported_tasks(s)
        THEN CHOOSE s \in registered : t \in get_supported_tasks(s)
        ELSE "None"]

\* CrystallizerService overrides _worker: its loop reads the Redis queue and never
\* its own _task_queue.
OverridesWorker(service) == service = "CrystallizerService"

\* CognitiveService.__init__: not running, an empty queue, no worker task.  `tasks`
\* are the worker tasks the event loop holds for the service ("running": created
\* and not cancelled, "cancelling": cancel() called, "ended"); `stopping` says
\* that a stop() call is suspended at `await self._worker_task`.
NewService ==
    [is_running |-> FALSE, task_queue |-> <<>>, worker_task |-> Null, tasks |-> <<>>,
     stopping |-> FALSE]

\* start() without the test of _is_running.
start_unguarded(svc) ==
    [svc EXCEPT !.is_running = TRUE,
                !.tasks = Append(@, "running"),
                !.worker_task = Len(svc.tasks) + 1]

\* CognitiveService.start
start(svc) ==
    IF ~svc.is_running
    THEN [svc EXCEPT !.is_running = TRUE,
                     !.tasks = Append(@, "running"),
                     !.worker_task = Len(svc.tasks) + 1]
    ELSE svc

\* CognitiveService.stop up to `await self._worker_task`: a task that already
\* ended is not changed by cancel().
stop(svc) ==
    IF svc.is_running
    THEN [svc EXCEPT !.is_running = FALSE,
                     !.stopping = TRUE,
                     !.tasks = IF svc.worker_task # Null /\ @[svc.worker_task] = "running"
                               THEN [@ EXCEPT ![svc.worker_task] = "cancelling"]
                               ELSE @]
    ELSE svc

\* The worker loops of a service that have not ended, and those that are at work.
WorkerLoops(svc) == {w \in DOMAIN svc.tasks : svc.tasks[w] # "ended"}

LiveWorkers(svc) == {w \in DOMAIN svc.tasks : svc.tasks[w] = "running"}

(***************************************************************************)
(* State                                                                   *)
(***************************************************************************)
VARIABLES
    memory,          \* UniversalMemory: graph, vector store, time store
    routing,         \* Orchestrator._task_routing_table
    services,        \* per service: _is_running, _task_queue
    report_futures,  \* the keys of Orchestrator._report_futures (task_id -> future)
    future_result,   \* the futures that are done: task_id -> the Report set as result
    calls,           \* the execute_single_task coroutines: task_id -> frame
    handlers,        \* the _process_task_wrapper asyncio tasks: task_id -> frame
    received,        \* history: the Reports each wrapper called receive_report with
    redis_queue,     \* the Redis list CRYSTALLIZATION_QUEUE_KEY
    mem_call,        \* history: the record_entry call a direct caller of the memory made last
    cycles,          \* the handle_user_impulse coroutines: cycle -> frame
    conversation_cache,  \* Orchestrator._conversation_cache
    distills,        \* the _distill_and_archive_pair asyncio tasks: cycle of the pair -> frame
    client_out,      \* what was written to each cycle's StreamWriter
    disk,            \* the snapshot and chronicle files UniversalMemory.close wrote
    graph_writers    \* history: which logical activities wrote the graph, and the last one

\* The state of the Orchestrator's routing and of the services.
framework_vars ==
    <<routing, services, report_futures, future_result, calls, handlers, received,
      redis_queue>>

\* The state of the cognitive cycles and of what they leave behind.
cycle_vars == <<cycles, conversation_cache, distills, client_out, disk>>

vars == <<memory, framework_vars, mem_call, cycle_vars, graph_writers>>

\* Task ids of the tasks of cycle c: slot 1 the instinct, 2 the plan, 3 the
\* synthesis, 4 the distillation of the cycle's pair, 5.. the recall requests.
CycleTaskId(c, slot) == 10 * c + slot

\* The logical activity a task belongs to: cycle c, the distillation of the pair of
\* cycle c (100 + c), or none of them (0).
WriterOf(task_id) ==
    IF task_id < 10 \/ task_id >= 50 THEN 0
    ELSE IF task_id % 10 = 4 THEN 100 + (task_id \div 10)
    ELSE task_id \div 10

\* The history of graph writers after activity w wrote: w interleaves when it wrote
\* before and another activity wrote since.
note_write(g, w) ==
    IF w = 0 THEN g
    ELSE [seen |-> g.seen \cup {w}, last |-> w,
          interleaved |-> g.interleaved \/ (w \in g.seen /\ g.last # w)]

\* Node ids of the writes made for task t: its TaskNode and its ReportNode(s).
TaskNodeBase(task_id) == 1000 + task_id * 20

ReportNodeBase(task_id) == 1000 + task_id * 20 + 10

\* Task ids of the tasks the Crystallizer's worker builds from Redis jobs.
JobTaskId(k) == 50 + k

(***************************************************************************)
(* Orchestrator: submit_task, execute_single_task, receive_report          *)
(***************************************************************************)
\* CognitiveService.push_task: queue.put on an unbounded queue.
push_task(svcs, service, task) ==
    [svcs EXCEPT ![service].task_queue = Append(@, task)]

\* submit_task storing the future before it looks the service up.
submit_task_future_first(svcs, futures, task) ==
    IF routing[task.type] = "None"
    THEN [services |-> svcs, report_futures |-> futures \cup {task.task_id},
          future |-> FALSE]
    ELSE [services |-> push_task(svcs, routing[task.type], task),
          report_futures |-> futures \cup {task.task_id},
          future |-> TRUE]

\* Orchestrator.submit_task: no service for the type: no future, nothing changes;
\* otherwise a future is stored under task_id and the task is pushed.
submit_task(svcs, futures, task) ==
    IF routing[task.type] = "None"
    THEN [services |-> svcs, report_futures |-> futures, future |-> FALSE]
    ELSE [services |-> push_task(svcs, routing[task.type], task),
          report_futures |-> futures \cup {task.task_id},
          future |-> TRUE]

\* The Report execute_single_task builds when submit_task returned no future.
no_future_report(task) ==
    Report("FAILURE", task.type, [error |-> "Failed to create task future."],
           task.correlation_id, task.task_id)

\* Orchestrator.execute_single_task up to `await future`: record the TaskNode,
\* submit; without a future the call returns at once.
execute_single_task(M, svcs, futures, task) ==
    CHOOSE called \in
        {[memory |-> rec.memory, services |-> sub.services,
          report_futures |-> sub.report_futures,
          frame |-> [pc |-> IF sub.future THEN "awaiting" ELSE "returned",
                     task |-> task, task_node_id |-> rec.id,
                     report |-> IF sub.future THEN NoReport ELSE no_future_report(task)]] :
            rec \in {record_entry(M, NormalEnv(M, TaskNodeBase(task.task_id)), "TaskNode",
                                  json_dumps(task.payload),
                                  [task_type |-> task.type, task_id |-> task.task_id,
                                   correlation_id |-> task.correlation_id],
                                  LinkList(task.link_to))},
            sub \in {submit_task(svcs, futures, task)}} : TRUE

\* execute_single_task after `await future` with the edge drawn from the TaskNode
\* to the ReportNode.
execute_single_task_resume_reversed(M, frame, report) ==
    [memory |-> IF report.report_node_id # Null /\ frame.task_node_id # Null
                THEN graph_add_edge(M, frame.task_node_id, report.report_node_id,
                                    "IS_RESULT_OF")
                ELSE M,
     frame |-> [frame EXCEPT !.pc = "returned", !.report = report]]

\* execute_single_task after `await future` linking the ReportNode to the task's
\* task_id, which is no node of the graph.
execute_single_task_resume_links_task_id(M, frame, report) ==
    [memory |-> IF report.report_node_id # Null /\ frame.task_node_id # Null
                THEN graph_add_edge(M, report.report_node_id,
                                    CorrelationOf(frame.task.task_id), "IS_RESULT_OF")
                ELSE M,
     frame |-> [frame EXCEPT !.pc = "returned", !.report = report]]

\* Orchestrator.execute_single_task after `await future`: link the ReportNode to
\* the TaskNode and return the report.
execute_single_task_resume(M, frame, report) ==
    [memory |-> IF report.report_node_id # Null /\ frame.task_node_id # Null
                THEN graph_add_edge(M, report.report_node_id, frame.task_node_id,
                                    "IS_RESULT_OF")
                ELSE M,
     frame |-> [frame EXCEPT !.pc = "returned", !.report = report]]

\* receive_report setting the result whether or not a future is pending.
receive_report_always_fulfils(M, futures, results, report) ==
    CHOOSE received_report \in
        {[memory |-> rec.memory,
          report |-> [report EXCEPT !.report_node_id = rec.id],
          report_futures |-> futures \ {report.source_task_id},
          future_result |-> Put(results, report.source_task_id,
                                [report EXCEPT !.report_node_id = rec.id])] :
            rec \in {record_entry(M, NormalEnv(M, ReportNodeBase(report.source_task_id)),
                                  "ReportNode", json_dumps(report.data),
                                  [service |-> report.source_task_type,
                                   status |-> report.status], <<>>)}} : TRUE

\* receive_report that reads the future and leaves it in the map.
receive_report_keeps_entry(M, futures, results, report) ==
    CHOOSE received_report \in
        {[memory |-> rec.memory,
          report |-> [report EXCEPT !.report_node_id = rec.id],
          report_futures |-> futures,
          future_result |-> IF report.source_task_id \in futures
                            THEN Put(results, report.source_task_id,
                                     [report EXCEPT !.report_node_id = rec.id])
                            ELSE results] :
            rec \in {record_entry(M, NormalEnv(M, ReportNodeBase(report.source_task_id)),
                                  "ReportNode", json_dumps(report.data),
                                  [service |-> report.source_task_type,
                                   status |-> report.status], <<>>)}} : TRUE

\* Orchestrator.receive_report: record the ReportNode, stamp the report with its
\* node id, pop the future of source_task_id and, if there is one, fulfil it.
receive_report(M, futures, results, report) ==
    CHOOSE received_report \in
        {[memory |-> rec.memory,
          report |-> [report EXCEPT !.report_node_id = rec.id],
          report_futures |-> futures \ {report.source_task_id},
          future_result |-> IF report.source_task_id \in futures
                            THEN Put(results, report.source_task_id,
                                     [report EXCEPT !.report_node_id = rec.id])
                            ELSE results] :
            rec \in {record_entry(M, NormalEnv(M, ReportNodeBase(report.source_task_id)),
                                  "ReportNode", json_dumps(report.data),
                                  [service |-> report.source_task_type,
                                   status |-> report.status], <<>>)}} : TRUE

(***************************************************************************)
(* CognitiveService (services/base.py)                                     *)
(***************************************************************************)
\* handle_task is abstract: an implementation returns a Report built from
\* create_report_meta, returns None, or raises.
HandleTaskResults ==
    {[kind |-> "report", status |-> "SUCCESS", data |-> [text |-> "ok"], link_to |-> NoLink],
     [kind |-> "report", status |-> "FAILURE", data |-> [error |-> "unsupported"],
      link_to |-> NoLink],
     [kind |-> "None", status |-> "None", data |-> <<>>, link_to |-> NoLink],
     [kind |-> "raise", status |-> "None", data |-> [error |-> "boom"], link_to |-> NoLink]}

\* _process_task_wrapper, `if report is None`: the Report that replaces None.
none_report(task) ==
    Report("FAILURE", task.type, [error |-> "Service returned None"],
           task.correlation_id, task.task_id)

\* The error Report with task_id and correlation_id swapped.
error_report_swapped_ids(task, e) ==
    Report("FAILURE", task.type, [error |-> e],
           task.task_id, task.correlation_id)

\* _process_task_wrapper, `except Exception as e`: the Report built from str(e).
error_report(task, e) ==
    Report("FAILURE", task.type, [error |-> e],
           task.correlation_id, task.task_id)

\* _process_task_wrapper: the Report it hands to receive_report for a result of
\* handle_task.
wrapper_report(task, result) ==
    IF result.kind = "report"
    THEN [ReportFor(task, result.status, result.data) EXCEPT !.link_to = result.link_to]
    ELSE IF result.kind = "None" THEN none_report(task)
    ELSE error_report(task, result.data.error)

(***************************************************************************)
(* Actions                                                                 *)
(***************************************************************************)
\* A caller (the cognitive cycle, CommandProcessor, a service) runs
\* execute_single_task on a fresh Task up to its first suspension.
ExecuteSingleTask(type) ==
    \E task_id \in {Cardinality(DOMAIN calls \cap 1..MaxTasks) + 1} :
    \E r \in {execute_single_task(memory, services, report_futures,
                                  Task(type, [text |-> "payload"], task_id, NoLink))} :
       /\ task_id <= MaxTasks
       /\ memory' = r.memory
       /\ services' = r.services
       /\ report_futures' = r.report_futures
       /\ calls' = Put(calls, task_id, r.frame)
       /\ UNCHANGED <<routing, future_result, handlers, received, redis_queue>>
       /\ UNCHANGED <<mem_call, cycle_vars, graph_writers>>

\* The awaited future is done: execute_single_task resumes and returns.
ExecuteSingleTaskReturn(task_id) ==
    /\ task_id \in DOMAIN calls
    /\ calls[task_id].pc = "awaiting"
    /\ task_id \in DOMAIN future_result
    /\ \E r \in {execute_single_task_resume(memory, calls[task_id], future_result[task_id])} :
          /\ memory' = r.memory
          /\ calls' = [calls EXCEPT ![task_id] = r.frame]
    /\ graph_writers' = note_write(graph_writers, WriterOf(task_id))
    /\ UNCHANGED <<routing, services, report_futures, future_result, handlers,
                   received, redis_queue>>
    /\ UNCHANGED <<mem_call, cycle_vars>>

\* CognitiveService._worker: take the next task of the queue and spawn its wrapper.
WorkerDequeue(service) ==
    /\ LiveWorkers(services[service]) # {}
    /\ services[service].is_running
    /\ ~OverridesWorker(service)
    /\ services[service].task_queue # <<>>
    /\ LET task == Head(services[service].task_queue)
       IN /\ handlers' = Put(handlers, task.task_id,
                             [service |-> service, task |-> task, pc |-> "running",
                              result |-> "running"])
          /\ received' = Put(received, task.task_id, <<>>)
    /\ services' = [services EXCEPT ![service].task_queue = Tail(@)]
    /\ UNCHANGED <<memory, routing, report_futures, future_result, calls, redis_queue>>
    /\ UNCHANGED <<mem_call, cycle_vars, graph_writers>>

lpush_twice(queue, impulse_id) ==
    <<[impulse_id |-> impulse_id], [impulse_id |-> impulse_id]>> \o queue

\* Orchestrator.handle_user_impulse, closure: lpush of {"impulse_id": ...}.
lpush(queue, impulse_id) == <<[impulse_id |-> impulse_id]>> \o queue

\* A job reaches the Redis queue (the impulse ids of this specification are of
\* cycles that are not part of it).
PushCrystallizationJob ==
    /\ Len(redis_queue) + Cardinality(DOMAIN handlers \cap {JobTaskId(k) : k \in 1..MaxJobs})
         < MaxJobs
    /\ redis_queue' = lpush(redis_queue, 1)
    /\ UNCHANGED <<memory, routing, services, report_futures, future_result, calls,
                   handlers, received>>
    /\ UNCHANGED <<mem_call, cycle_vars, graph_writers>>

\* CrystallizerService._worker: brpop a job, build a Task from it, spawn its wrapper.
CrystallizerWorker ==
    /\ LiveWorkers(services["CrystallizerService"]) # {}
    /\ services["CrystallizerService"].is_running
    /\ redis_queue # <<>>
    /\ LET job == redis_queue[Len(redis_queue)]
           k == Cardinality(DOMAIN handlers \cap {JobTaskId(j) : j \in 1..MaxJobs}) + 1
           task == Task("crystallize_dialogue", job, JobTaskId(k), NoLink)
       IN /\ handlers' = Put(handlers, task.task_id,
                             [service |-> "CrystallizerService", task |-> task,
                              pc |-> "running", result |-> "running"])
          /\ received' = Put(received, task.task_id, <<>>)
    /\ redis_queue' = SubSeq(redis_queue, 1, Len(redis_queue) - 1)
    /\ UNCHANGED <<memory, routing, services, report_futures, future_result, calls>>
    /\ UNCHANGED <<mem_call, cycle_vars, graph_writers>>

\* CognitiveService._process_task_wrapper: handle_task ends with `result`; the
\* wrapper's Report goes to receive_report, which runs without suspending.
ProcessTaskWrapper(task_id, result) ==
    /\ task_id \in DOMAIN handlers
    /\ handlers[task_id].pc = "running"
    /\ \E r \in {receive_report(memory, report_futures, future_result,
                                wrapper_report(handlers[task_id].task, result))} :
          /\ memory' = r.memory
          /\ report_futures' = r.report_futures
          /\ future_result' = r.future_result
          /\ received' = [received EXCEPT ![task_id] = Append(@, r.report)]
    /\ handlers' = [handlers EXCEPT ![task_id].pc = "done",
                                    ![task_id].result = result.kind]
    /\ graph_writers' = note_write(graph_writers, WriterOf(task_id))
    /\ UNCHANGED <<routing, services, calls, redis_queue>>
    /\ UNCHANGED <<mem_call, cycle_vars>>

\* Nothing saved yet: no snapshot file, no chronicle file.
NoFiles == [saved |-> FALSE, nodes |-> <<>>, edges |-> {}, chronicle |-> <<>>]

\* No record_entry call made yet.
NoCall ==
    [made |-> FALSE, node_type |-> "None", content |-> "", links |-> <<>>,
     timestamp |-> Null, id |-> Null, nodes_before |-> <<>>]

(***************************************************************************)
(* The Task/Report protocol: every service registered and started          *)
(* (main.py), callers submitting tasks of every type.                      *)
(***************************************************************************)
Init ==
    /\ memory = EmptyMemory
    /\ routing = RoutingTable(Services)
    /\ services = [s \in Services |-> start(NewService)]
    /\ report_futures = {}
    /\ future_result = <<>>
    /\ calls = <<>>
    /\ handlers = <<>>
    /\ received = <<>>
    /\ redis_queue = <<>>
    /\ mem_call = NoCall
    /\ cycles = <<>>
    /\ conversation_cache = <<>>
    /\ distills = <<>>
    /\ client_out = <<>>
    /\ disk = NoFiles
    /\ graph_writers = [seen |-> {}, last |-> 0, interleaved |-> FALSE]

Next ==
    \/ \E type \in {"generate_instinctive_response", "crystallize_dialogue", UnroutedType} :
           ExecuteSingleTask(type)
    \/ \E task_id \in DOMAIN calls : ExecuteSingleTaskReturn(task_id)
    \/ \E service \in Services : WorkerDequeue(service)
    \/ PushCrystallizationJob
    \/ CrystallizerWorker
    \/ \E task_id \in DOMAIN handlers, result \in HandleTaskResults :
           ProcessTaskWrapper(task_id, result)

Spec == Init /\ [][Next]_vars

\* The event loop runs every task that is ready: the workers, the wrappers and the
\* resumed callers are scheduled fairly; callers and the job queue are not.
FairSpec ==
    /\ Spec
    /\ \A service \in Services : WF_vars(WorkerDequeue(service))
    /\ WF_vars(CrystallizerWorker)
    /\ WF_vars(\E task_id \in DOMAIN handlers, result \in HandleTaskResults :
                   ProcessTaskWrapper(task_id, result))
    /\ WF_vars(\E task_id \in DOMAIN calls : ExecuteSingleTaskReturn(task_id))

(***************************************************************************)
(* Claims about the Task/Report protocol                                   *)
(***************************************************************************)
\* The Reports receive_report was called with whose source_task_id is task_id.
Delivered(task_id) ==
    {d \in {<<h, i>> : h \in DOMAIN received, i \in 1..MaxTasks + MaxJobs} :
        /\ d[2] \in DOMAIN received[d[1]]
        /\ received[d[1]][d[2]].source_task_id = task_id}

\* submit_task pushed the task of this call to the queue of a registered service.
Pushed(task_id) ==
    /\ task_id \in DOMAIN calls
    /\ routing[calls[task_id].task.type] # "None"

\* C1: every Task that submit_task pushes to the queue of a registered service is
\* eventually answered by exactly one Report with its task_id at receive_report:
\* never none and never two, whatever the task type and whatever handle_task does.
C1_TaskReportPairing ==
    \A task_id \in 1..MaxTasks :
        /\ [](Pushed(task_id) => <>(Cardinality(Delivered(task_id)) = 1))
        /\ [](Cardinality(Delivered(task_id)) <= 1)

\* C2: when handle_task raises or returns None, the wrapper ends normally having
\* delivered one Report with status FAILURE that carries the error text and the
\* task's task_id, correlation_id and type.
C2_FailureReport ==
    \A h \in DOMAIN handlers :
        handlers[h].result \in {"None", "raise"} =>
            /\ handlers[h].pc = "done"
            /\ Len(received[h]) = 1
            /\ LET report == received[h][1]
                   task == handlers[h].task
               IN /\ report.status = "FAILURE"
                  /\ "error" \in DOMAIN report.data
                  /\ handlers[h].result = "raise" => report.data.error = "boom"
                  /\ handlers[h].result = "None" =>
                         report.data.error = "Service returned None"
                  /\ report.source_task_id = task.task_id
                  /\ report.correlation_id = task.correlation_id
                  /\ report.source_task_type = task.type

\* A handle_task that raised and one that returned None have both been wrapped.
C2_Witness ==
    /\ \E h \in DOMAIN handlers : handlers[h].result = "raise" /\ Len(received[h]) = 1
    /\ \E h \in DOMAIN handlers : handlers[h].result = "None" /\ Len(received[h]) = 1

\* C3: execute_single_task on a task whose type has no route returns at once a
\* FAILURE Report with the task's task_id and correlation_id; no service queue, no
\* wrapper and no entry of the pending-Report map changes.
C3_UnroutedTaskFails ==
    [][\A task_id \in 1..MaxTasks :
         (/\ task_id \notin DOMAIN calls
          /\ task_id \in DOMAIN calls'
          /\ routing[calls'[task_id].task.type] = "None")
         => /\ calls'[task_id].pc = "returned"
            /\ calls'[task_id].report.status = "FAILURE"
            /\ calls'[task_id].report.source_task_id = task_id
            /\ calls'[task_id].report.correlation_id = calls'[task_id].task.correlation_id
            /\ report_futures' = report_futures
            /\ future_result' = future_result
            /\ services' = services
            /\ handlers' = handlers]_vars

\* An unrouted task was submitted while another task was pending.
C3_Witness ==
    \E task_id \in DOMAIN calls :
        /\ calls[task_id].task.type = UnroutedType
        /\ calls[task_id].pc = "returned"
        /\ calls[task_id].report.status = "FAILURE"
        /\ report_futures # {}

(***************************************************************************)
(* UniversalMemory on its own: callers record entries of every kind while  *)
(* the encoder may fail and the wall clock may return the same instant.    *)
(***************************************************************************)
\* Number of record_entry calls.
MaxRecords == 2
\* The wall clock's instants.
MaxClock == 2

\* A type memory/schema.yaml does not list.
UnknownNodeType == "BogusNode"

\* The node types callers pass: one per vector collection, one that has no
\* collection, one that fails validation.
RecordedTypes == {"UserImpulse", "ConceptNode", "TaskNode", UnknownNodeType}

\* The link lists callers pass: none, a link to the first node recorded, a link
\* whose target id is None, a link to an id no node has, and the two links of a
\* FinalResponseNode (to the impulse, and to a report node that may be None).
RecordedLinks ==
    {<<>>, <<LinkDirective(1, "IS_TASK_FOR")>>, <<LinkDirective(Null, "WAS_SYNTHESIZED_FROM")>>,
     <<LinkDirective(9, "IS_TASK_FOR")>>,
     <<LinkDirective(1, "IS_RESPONSE_TO"), LinkDirective(Null, "WAS_SYNTHESIZED_FROM")>>}

\* A direct call of UniversalMemory.record_entry.
RecordEntryCall(node_type, content, links, timestamp, enc_ok) ==
    \E r \in {record_entry(memory,
                           [id |-> Cardinality(DOMAIN memory.nodes) + 1,
                            timestamp |-> timestamp, enc_ok |-> enc_ok],
                           node_type, content, <<>>, links)} :
       /\ Cardinality(DOMAIN memory.nodes) < MaxRecords
       \* uuid4 is fresh: no caller holds the id of a node that does not exist yet
       /\ \A i \in DOMAIN links : links[i].target_id # Cardinality(DOMAIN memory.nodes) + 1
       /\ memory' = r.memory
       /\ mem_call' = [made |-> TRUE, node_type |-> node_type, content |-> content,
                       links |-> links, timestamp |-> timestamp, id |-> r.id,
                       nodes_before |-> memory.nodes]
       /\ UNCHANGED <<framework_vars, cycle_vars, graph_writers>>

MemInit == Init

MemNext ==
    \E node_type \in RecordedTypes, content \in {"coffee", " "}, links \in RecordedLinks,
       timestamp \in 1..MaxClock, enc_ok \in BOOLEAN :
        RecordEntryCall(node_type, content, links, timestamp, enc_ok)

MemSpec == MemInit /\ [][MemNext]_vars

\* C4: every record_entry call either returns an id that is at once resolvable in
\* the symbolic layer, in the semantic layer (content not blank, type mapped to a
\* collection) and in the temporal layer, or returns None and leaves no node for it
\* in the symbolic layer; also when the semantic write fails part-way.
C4_RecordEntryAtomic ==
    mem_call.made =>
        IF mem_call.id # Null
        THEN /\ has_node(memory, mem_call.id)
             /\ (~IsBlank(mem_call.content) /\ get_collection(mem_call.node_type) # "None")
                    => [collection |-> get_collection(mem_call.node_type),
                        id |-> mem_call.id] \in memory.vectors
             /\ mem_call.id \in
                    query_by_range(memory.chronicle, mem_call.timestamp, mem_call.timestamp)
        ELSE memory.nodes = mem_call.nodes_before

(***************************************************************************)
(* The cognitive cycle: Orchestrator.handle_user_impulse, _manage_context,  *)
(* _distill_and_archive_pair, and the services the cycle's tasks go to.    *)
(* Every impulse arrives on a connection that carries no other cycle at    *)
(* the time, and the connection stays open until the cycle ends.           *)
(***************************************************************************)
\* Number of impulses the clients send.
MaxCycles == 2
\* Number of failures the environment injects: handle_task calls that raise, Redis
\* pushes that fail.
MaxFailures == 1

\* config.LLM_CONTEXT_LIMIT
LLM_CONTEXT_LIMIT == 8192

\* _manage_context: safe_limit = int(LLM_CONTEXT_LIMIT * 0.7)
safe_limit == (LLM_CONTEXT_LIMIT * 7) \div 10

\* What the tokenizer endpoint answers: a request error, or a list of tokens (few,
\* just over the limit, far over the limit).
TokenizerAnswers ==
    {[ok |-> FALSE, tokens |-> 0], [ok |-> TRUE, tokens |-> 10],
     [ok |-> TRUE, tokens |-> 5735], [ok |-> TRUE, tokens |-> 5740]}

\* The text a client sends (handle_client skips empty input).
Impulses == {"hello"}

\* The queries the planner's LLM returns; concepts come as the LLM spells them.
PlannedQueries ==
    <<[semantic_query |-> "how to brew", concepts |-> <<"Coffee ", "press">>],
      [semantic_query |-> "which press", concepts |-> <<"press", "">>]>>

\* concept.lower().strip()
lower_strip(concept) == IF concept = "Coffee " THEN "coffee" ELSE concept

\* An entry of the conversation cache.
Turn(role, content, node_id) == [role |-> role, content |-> content, node_id |-> node_id]

\* Node ids of the writes of cycle c: slot 0 the UserImpulse, 1 the
\* InstinctiveResponseNode, 2 the SearchPlanNode, 3 the FinalResponseNode, 4 the
\* DialogueTurnNode of the d-th distillation.
CycleNodeBase(c, slot) == 100 * c + 10 * slot

\* Node ids of the ConceptNode(s) recorded for a name.
ConceptBase(concept_name) == IF concept_name = "coffee" THEN 10 ELSE 20

\* "\n".join(contents).strip() is empty.
cache_text_blank(cache) == \A i \in 1..Len(cache) : IsBlank(cache[i].content)

\* The FIFO loop popping one entry, not a pair.
evict_one_entry(cache, total3, spawned) ==
    IF total3 > 3 * safe_limit /\ Len(cache) >= 2
    THEN [cache |-> Tail(cache),
          spawned |-> Append(spawned, [user_turn |-> cache[1], assistant_turn |-> cache[2]])]
    ELSE [cache |-> cache, spawned |-> spawned]

\* The FIFO loop popping every pair once the estimate exceeds the limit.
evict_all(cache, total3, spawned) ==
    IF total3 > 3 * safe_limit /\ Len(cache) >= 2
    THEN [cache |-> SubSeq(cache, 2 * (Len(cache) \div 2) + 1, Len(cache)),
          spawned |-> spawned \o [j \in 1..(Len(cache) \div 2) |->
                                    [user_turn |-> cache[2 * j - 1],
                                     assistant_turn |-> cache[2 * j]]]]
    ELSE [cache |-> cache, spawned |-> spawned]

\* _manage_context, the FIFO loop: while the estimate exceeds the limit and two
\* entries are left, pop the oldest pair, schedule its distillation and subtract
\* the pair's length / 3.  Sizes are kept in thirds of a token.
RECURSIVE evict(_, _, _)
evict(cache, total3, spawned) ==
    IF total3 > 3 * safe_limit /\ Len(cache) >= 2
    THEN evict(SubSeq(cache, 3, Len(cache)),
               total3 - (len(cache[1].content) + len(cache[2].content)),
               Append(spawned, [user_turn |-> cache[1], assistant_turn |-> cache[2]]))
    ELSE [cache |-> cache, spawned |-> spawned]

\* len(full_text_to_tokenize): the contents joined by newlines.
CacheChars(cache) ==
    SeqSum([i \in DOMAIN cache |-> len(cache[i].content)])
    + (IF cache = <<>> THEN 0 ELSE Len(cache) - 1)

\* _manage_context taking the character count / 3 for the cache size when the
\* tokenizer request fails.
manage_context_char_fallback(cache, impulse_text, answer) ==
    IF ~answer.ok
    THEN IF CacheChars(cache) + len(impulse_text) <= 3 * safe_limit
         THEN [cache |-> cache, spawned |-> <<>>]
         ELSE evict(cache, CacheChars(cache) + len(impulse_text), <<>>)
    ELSE IF 3 * answer.tokens + len(impulse_text) <= 3 * safe_limit
         THEN [cache |-> cache, spawned |-> <<>>]
         ELSE evict(cache, 3 * answer.tokens + len(impulse_text), <<>>)

\* _manage_context after the tokenizer answered: no cleanup on a request error or
\* when the estimate fits.
manage_context(cache, impulse_text, answer) ==
    IF ~answer.ok THEN [cache |-> cache, spawned |-> <<>>]
    ELSE IF 3 * answer.tokens + len(impulse_text) <= 3 * safe_limit
         THEN [cache |-> cache, spawned |-> <<>>]
         ELSE evict(cache, 3 * answer.tokens + len(impulse_text), <<>>)

\* The cleanup loop scheduling no task for the pairs it popped.
create_no_distill_tasks(D, spawned) == D

\* asyncio.create_task(self._distill_and_archive_pair(user_turn, assistant_turn))
\* for every pair of `spawned`.
create_distill_tasks(D, spawned) ==
    D \o [i \in 1..Len(spawned) |->
            [pc |-> "scheduled", user_turn |-> spawned[i].user_turn,
             assistant_turn |-> spawned[i].assistant_turn,
             dialogue_turn_node_id |-> Null]]

\* graph.nodes[node_id]["content"] = text
set_content(M, node_id, text) == [M EXCEPT !.nodes[node_id].content = text]

\* Attributes that are not strings when recorded: values [t, v] with t the Python
\* type.
NonStringAttributes == {"archived_node_ids", "strength", "active_status"}

\* save_snapshot: every attribute that is not a string becomes one (json.dumps or
\* str), in the graph itself.
stringify(attrs) ==
    [k \in DOMAIN attrs |->
        IF k \in NonStringAttributes THEN [t |-> "str", v |-> attrs[k].v] ELSE attrs[k]]

save_snapshot(M) ==
    [M EXCEPT !.nodes = [n \in DOMAIN M.nodes |->
                            [M.nodes[n] EXCEPT !.attrs = stringify(@)]]]

\* The files written from the graph as it was before save_snapshot turned the
\* attributes into strings.
close_writes_raw_graph(M) ==
    [memory |-> save_snapshot(M),
     disk |-> [saved |-> TRUE, nodes |-> M.nodes, edges |-> M.edges,
               chronicle |-> M.chronicle]]

\* UniversalMemory.close: save_snapshot, then save_chronicle.
close(M) ==
    CHOOSE closed \in
        {[memory |-> saved,
          disk |-> [saved |-> TRUE, nodes |-> saved.nodes, edges |-> saved.edges,
                    chronicle |-> saved.chronicle]] :
            saved \in {save_snapshot(M)}} : TRUE

(***************************************************************************)
(* handle_task of the services the cycle uses.  The texts are the LLM's;   *)
(* any handle_task may raise.                                              *)
(***************************************************************************)
Raised == [kind |-> "raise", status |-> "None", data |-> [error |-> "boom"], link_to |-> NoLink]

Succeeded(data, link_to) ==
    [kind |-> "report", status |-> "SUCCESS", data |-> data, link_to |-> link_to]

\* SimpleExecutorService.handle_task: the report carries a link to the TaskNode.
simple_executor_handle_task(M, task) ==
    LET task_node == get_node_by_task_id(M, task.task_id)
    IN {Succeeded([text |-> "instinct"],
                  IF task_node # Null THEN LinkDirective(task_node, "IS_RESULT_OF")
                  ELSE NoLink)}

\* EnrichmentPlannerService.handle_task: the validated plan, or an empty plan when
\* the LLM call or the validation fails.
enrichment_planner_handle_task(task) ==
    {Succeeded([queries |-> PlannedQueries], NoLink), Succeeded([queries |-> <<>>], NoLink)}

\* MemoryRecallService.handle_task as the cycle sees it: a SUCCESS report.  The
\* search itself is modelled by RecallHandle, RecallCapture and RecallRank.
memory_recall_handle_task(task) ==
    {Succeeded([found_nodes |-> <<>>], NoLink)}

\* SynthesisService.handle_task
synthesis_handle_task(task) ==
    IF task.type \in {"synthesize_final_response", "synthesize_acknowledgement"}
    THEN {Succeeded([text |-> "final answer"], NoLink)}
    ELSE {[kind |-> "report", status |-> "FAILURE",
           data |-> [error |-> "Unsupported synthesis task type"], link_to |-> NoLink]}

\* MemoryCompressorService.handle_task
memory_compressor_handle_task(task) ==
    LET items == Get(task.payload, "items_to_compress", <<>>)
    IN IF Len(items) = 0 THEN {Succeeded([summary_text |-> ""], NoLink)}
       ELSE IF Len(items) # 2
            THEN {[kind |-> "report", status |-> "FAILURE",
                   data |-> [error |-> "Distillation requires exactly one pair of turns."],
                   link_to |-> NoLink]}
            ELSE {Succeeded([summary_text |-> "summary"], NoLink)}

\* The ways handle_task of the task's service can end.
handle_task(M, task) ==
    (CASE task.type = "generate_instinctive_response" -> simple_executor_handle_task(M, task)
       [] task.type = "create_enrichment_plan" -> enrichment_planner_handle_task(task)
       [] task.type = "recall_request" -> memory_recall_handle_task(task)
       [] task.type = "compress_memory_chunk" -> memory_compressor_handle_task(task)
       [] OTHER -> synthesis_handle_task(task))
    \cup {Raised}

\* The failures injected so far.
Failures ==
    Cardinality({h \in DOMAIN handlers : handlers[h].result = "raise"})
    + Cardinality({c \in DOMAIN cycles : cycles[c].pc = "done" /\ ~cycles[c].pushed})

(***************************************************************************)
(* handle_user_impulse, one operator per stretch of code between awaits    *)
(***************************************************************************)
\* TaskReady for a caller that goes on only with a SUCCESS report.
TaskReady_on_success(task_id) ==
    /\ task_id \in DOMAIN calls
    /\ calls[task_id].pc = "awaiting"
    /\ task_id \in DOMAIN future_result
    /\ future_result[task_id].status = "SUCCESS"

\* The value of `await self.execute_single_task(task)` is available: no future was
\* created, or the future is done.
TaskReady(task_id) ==
    /\ task_id \in DOMAIN calls
    /\ \/ calls[task_id].pc = "returned"
       \/ calls[task_id].pc = "awaiting" /\ task_id \in DOMAIN future_result

\* execute_single_task from `await future` to its return, for a call made inline.
Awaited(M, task_id) ==
    IF calls[task_id].pc = "returned" THEN [memory |-> M, frame |-> calls[task_id]]
    ELSE execute_single_task_resume(M, calls[task_id], future_result[task_id])

\* A cycle that has not recorded anything yet.
NewCycle(impulse_text) ==
    [pc |-> "tokenizing", impulse_text |-> impulse_text, impulse_node_id |-> Null,
     instinctive_response_text |-> "", search_tasks |-> <<>>,
     final_response_text |-> "", final_response_node_id |-> Null, pushed |-> FALSE]

\* Stage 1 and the start of stage 2: record the UserImpulse (None: the cycle returns
\* None), then execute_single_task(generate_instinctive_response) up to its await.
begin_cycle(M, svcs, futures, c, impulse_text, cache) ==
    CHOOSE begun \in
        {IF rec.id = Null
         THEN [memory |-> rec.memory, services |-> svcs, report_futures |-> futures,
               started |-> <<>>,
               frame |-> [NewCycle(impulse_text) EXCEPT !.pc = "returned None"]]
         ELSE CHOOSE instinct \in
                  {[memory |-> r.memory, services |-> r.services,
                    report_futures |-> r.report_futures, started |-> <<r.frame>>,
                    frame |-> [NewCycle(impulse_text) EXCEPT !.pc = "instinct",
                                                             !.impulse_node_id = rec.id]] :
                     r \in {execute_single_task(
                               rec.memory, svcs, futures,
                               Task("generate_instinctive_response",
                                    [impulse_text |-> impulse_text, history |-> cache],
                                    CycleTaskId(c, 1),
                                    LinkDirective(rec.id, "IS_TASK_FOR")))}} : TRUE :
            rec \in {record_entry(M, NormalEnv(M, CycleNodeBase(c, 0)), "UserImpulse",
                                  impulse_text, <<>>, <<>>)}} : TRUE

\* calls with the frames of the execute_single_task calls just started.
RECURSIVE with_calls(_, _)
with_calls(C, started) ==
    IF started = <<>> THEN C
    ELSE with_calls(Put(C, Head(started).task.task_id, Head(started)), Tail(started))

\* Stage 4: the concepts of the plan, `{concept.lower().strip() ... if concept}`.
all_concepts(queries) ==
    UNION {{lower_strip(queries[q].concepts[i]) :
                i \in {j \in 1..Len(queries[q].concepts) : queries[q].concepts[j] # ""}} :
           q \in 1..Len(queries)}

\* Stage 4: get or create the ConceptNode of every name and link the impulse to it.
\* (The set's iteration order does not show: ids are per name.)
RECURSIVE link_concepts(_, _, _)
link_concepts(M, impulse_node_id, names) ==
    IF names = {} THEN M
    ELSE CHOOSE linked \in
             {link_concepts(IF r.id # Null
                            THEN graph_add_edge(r.memory, impulse_node_id, r.id,
                                                "CONTAINS_CONCEPT")
                            ELSE r.memory,
                            impulse_node_id, names \ {r.name}) :
                r \in {[name |-> concept_name] @@
                       get_or_create_concept_node(
                           M, NormalEnv(M, ConceptBase(concept_name)), concept_name) :
                          concept_name \in {CHOOSE n \in names : TRUE}}} : TRUE

\* Stage 5: execute_single_task(synthesize_final_response) up to its await.
start_synthesis(M, svcs, futures, c, frame, enrichment_reports) ==
    execute_single_task(M, svcs, futures,
        Task("synthesize_final_response",
             [original_impulse |-> frame.impulse_text,
              instinctive_response |-> frame.instinctive_response_text,
              memory_package |-> enrichment_reports],
             CycleTaskId(c, 3), LinkDirective(frame.impulse_node_id, "IS_TASK_FOR")))

\* asyncio.gather running only the first of the calls it was given.
start_tasks_first_only(W, tasks) ==
    IF tasks = <<>> THEN W
    ELSE CHOOSE started \in
             {[memory |-> r.memory, services |-> r.services,
               report_futures |-> r.report_futures,
               started |-> Append(W.started, r.frame)] :
                r \in {execute_single_task(W.memory, W.services, W.report_futures,
                                           Head(tasks))}} : TRUE

\* asyncio.gather over the recall calls: each runs execute_single_task up to its
\* await, in the order of the list.
RECURSIVE start_tasks(_, _)
start_tasks(W, tasks) ==
    IF tasks = <<>> THEN W
    ELSE CHOOSE started \in
             {start_tasks([memory |-> r.memory, services |-> r.services,
                           report_futures |-> r.report_futures,
                           started |-> Append(W.started, r.frame)], Tail(tasks)) :
                r \in {execute_single_task(W.memory, W.services, W.report_futures,
                                           Head(tasks))}} : TRUE

\* asyncio.gather waiting for the first call only.
gather_done_first(C, tasks) ==
    \E k \in 1..Len(tasks) : C[tasks[k].task_id].pc = "returned"

\* asyncio.gather is done when every call has returned.
gather_done(C, tasks) ==
    \A k \in 1..Len(tasks) : C[tasks[k].task_id].pc = "returned"

(***************************************************************************)
(* Actions of the cognitive cycle                                          *)
(***************************************************************************)
\* handle_client hands an impulse to handle_user_impulse: _manage_context returns at
\* once on an empty cache, otherwise it awaits the tokenizer.
HandleUserImpulse(impulse_text) ==
    \E c \in {Cardinality(DOMAIN cycles) + 1} :
       /\ c <= MaxCycles
       /\ IF cache_text_blank(conversation_cache)
          THEN \E r \in {begin_cycle(memory, services, report_futures, c, impulse_text,
                                     conversation_cache)} :
                  /\ memory' = r.memory
                  /\ services' = r.services
                  /\ report_futures' = r.report_futures
                  /\ calls' = with_calls(calls, r.started)
                  /\ cycles' = Put(cycles, c, r.frame)
                  /\ graph_writers' = note_write(graph_writers, c)
          ELSE /\ cycles' = Put(cycles, c, NewCycle(impulse_text))
               /\ UNCHANGED <<memory, services, report_futures, calls, graph_writers>>
       /\ UNCHANGED <<routing, future_result, handlers, received, redis_queue, mem_call,
                      conversation_cache, distills, client_out, disk>>

\* The tokenizer answered: _manage_context finishes (cleanup of the cache as it is
\* now), then stage 1 and the start of stage 2.
TokenizerResponse(c, answer) ==
    /\ c \in DOMAIN cycles
    /\ cycles[c].pc = "tokenizing"
    /\ \E mc \in {manage_context(conversation_cache, cycles[c].impulse_text, answer)} :
       \E r \in {begin_cycle(memory, services, report_futures, c, cycles[c].impulse_text,
                             mc.cache)} :
          /\ conversation_cache' = mc.cache
          /\ distills' = create_distill_tasks(distills, mc.spawned)
          /\ memory' = r.memory
          /\ services' = r.services
          /\ report_futures' = r.report_futures
          /\ calls' = with_calls(calls, r.started)
          /\ cycles' = [cycles EXCEPT ![c] = r.frame]
    /\ graph_writers' = note_write(graph_writers, c)
    /\ UNCHANGED <<routing, future_result, handlers, received, redis_queue, mem_call,
                   client_out, disk>>

\* Stage 2 ends, stage 3 starts: the instinct report is in; record the
\* InstinctiveResponseNode, execute_single_task(create_enrichment_plan).
InstinctDone(c) ==
    /\ c \in DOMAIN cycles
    /\ cycles[c].pc = "instinct"
    /\ TaskReady(CycleTaskId(c, 1))
    /\ \E aw \in {Awaited(memory, CycleTaskId(c, 1))} :
       \E text \in {Get(aw.frame.report.data, "text", "")} :
       \E rec \in {record_entry(aw.memory, NormalEnv(aw.memory, CycleNodeBase(c, 1)),
                                "InstinctiveResponseNode", text, <<>>,
                                <<LinkDirective(cycles[c].impulse_node_id,
                                                "IS_INSTINCT_FOR")>>)} :
       \E r \in {execute_single_task(
                    rec.memory, services, report_futures,
                    Task("create_enrichment_plan",
                         [original_impulse |-> cycles[c].impulse_text,
                          instinctive_response |-> text],
                         CycleTaskId(c, 2),
                         LinkDirective(cycles[c].impulse_node_id, "IS_TASK_FOR")))} :
          /\ memory' = r.memory
          /\ services' = r.services
          /\ report_futures' = r.report_futures
          /\ calls' = with_calls([calls EXCEPT ![CycleTaskId(c, 1)] = aw.frame], <<r.frame>>)
          /\ cycles' = [cycles EXCEPT ![c].pc = "planning",
                                      ![c].instinctive_response_text = text]
    /\ graph_writers' = note_write(graph_writers, c)
    /\ UNCHANGED <<routing, future_result, handlers, received, redis_queue, mem_call,
                   conversation_cache, distills, client_out, disk>>

\* Stage 3 ends: the plan report is in.  On SUCCESS record the SearchPlanNode, link
\* the concepts and build the recall calls; with recall calls await their gather,
\* otherwise go on to execute_single_task(synthesize_final_response).
PlanDone(c) ==
    /\ c \in DOMAIN cycles
    /\ cycles[c].pc = "planning"
    /\ TaskReady(CycleTaskId(c, 2))
    /\ \E aw \in {Awaited(memory, CycleTaskId(c, 2))} :
       \E report \in {aw.frame.report} :
       \E planned \in {report.status = "SUCCESS" /\ report.report_node_id # Null} :
       \E rec \in {IF planned
                   THEN record_entry(aw.memory, NormalEnv(aw.memory, CycleNodeBase(c, 2)),
                                     "SearchPlanNode", json_dumps(report.data), <<>>,
                                     <<LinkDirective(report.report_node_id, "CONTAINS_PLAN")>>)
                   ELSE [memory |-> aw.memory, id |-> Null]} :
       \E search_queries \in {IF planned THEN Get(report.data, "queries", <<>>) ELSE <<>>} :
       \E M1 \in {link_concepts(rec.memory, cycles[c].impulse_node_id,
                                all_concepts(search_queries))} :
       \E search_tasks \in
              {[k \in 1..Len(search_queries) |->
                   Task("recall_request", [request_payload |-> search_queries[k]],
                        CycleTaskId(c, 4 + k), LinkDirective(rec.id, "IS_TASK_FOR"))]} :
          IF search_tasks # <<>>
          THEN /\ memory' = M1
               /\ calls' = [calls EXCEPT ![CycleTaskId(c, 2)] = aw.frame]
               /\ cycles' = [cycles EXCEPT ![c].pc = "gather",
                                           ![c].search_tasks = search_tasks]
               /\ UNCHANGED <<services, report_futures>>
          ELSE \E r \in {start_synthesis(M1, services, report_futures, c, cycles[c], <<>>)} :
                  /\ memory' = r.memory
                  /\ services' = r.services
                  /\ report_futures' = r.report_futures
                  /\ calls' = with_calls([calls EXCEPT ![CycleTaskId(c, 2)] = aw.frame],
                                         <<r.frame>>)
                  /\ cycles' = [cycles EXCEPT ![c].pc = "synthesis"]
    /\ graph_writers' = note_write(graph_writers, c)
    /\ UNCHANGED <<routing, future_result, handlers, received, redis_queue, mem_call,
                   conversation_cache, distills, client_out, disk>>

\* Stage 4: the calls wrapped by asyncio.gather run up to their awaits.
GatherStart(c) ==
    /\ c \in DOMAIN cycles
    /\ cycles[c].pc = "gather"
    /\ \E W \in {start_tasks([memory |-> memory, services |-> services,
                              report_futures |-> report_futures, started |-> <<>>],
                             cycles[c].search_tasks)} :
          /\ memory' = W.memory
          /\ services' = W.services
          /\ report_futures' = W.report_futures
          /\ calls' = with_calls(calls, W.started)
    /\ cycles' = [cycles EXCEPT ![c].pc = "recalling"]
    /\ graph_writers' = note_write(graph_writers, c)
    /\ UNCHANGED <<routing, future_result, handlers, received, redis_queue, mem_call,
                   conversation_cache, distills, client_out, disk>>

\* Stage 4 ends, stage 5 starts: every recall call returned;
\* execute_single_task(synthesize_final_response) with their reports.
GatherDone(c) ==
    /\ c \in DOMAIN cycles
    /\ cycles[c].pc = "recalling"
    /\ gather_done(calls, cycles[c].search_tasks)
    /\ \E enrichment_reports \in
              {[k \in 1..Len(cycles[c].search_tasks) |->
                   calls[cycles[c].search_tasks[k].task_id].report]} :
       \E r \in {start_synthesis(memory, services, report_futures, c, cycles[c],
                                 enrichment_reports)} :
          /\ memory' = r.memory
          /\ services' = r.services
          /\ report_futures' = r.report_futures
          /\ calls' = with_calls(calls, <<r.frame>>)
    /\ cycles' = [cycles EXCEPT ![c].pc = "synthesis"]
    /\ graph_writers' = note_write(graph_writers, c)
    /\ UNCHANGED <<routing, future_result, handlers, received, redis_queue, mem_call,
                   conversation_cache, distills, client_out, disk>>

\* Stage 5 ends, stage 6 starts: the synthesis report is in; record the
\* FinalResponseNode, append the pair to the cache, await the Redis push.
SynthesisDone(c) ==
    /\ c \in DOMAIN cycles
    /\ cycles[c].pc = "synthesis"
    /\ TaskReady(CycleTaskId(c, 3))
    /\ \E aw \in {Awaited(memory, CycleTaskId(c, 3))} :
       \E report \in {aw.frame.report} :
       \E text \in {Get(report.data, "text", "An error occurred during synthesis.")} :
       \E rec \in {record_entry(aw.memory, NormalEnv(aw.memory, CycleNodeBase(c, 3)),
                                "FinalResponseNode", text, <<>>,
                                <<LinkDirective(cycles[c].impulse_node_id, "IS_RESPONSE_TO"),
                                  LinkDirective(report.report_node_id,
                                                "WAS_SYNTHESIZED_FROM")>>)} :
          /\ memory' = rec.memory
          /\ calls' = [calls EXCEPT ![CycleTaskId(c, 3)] = aw.frame]
          /\ conversation_cache' =
                 conversation_cache \o
                     <<Turn("user", cycles[c].impulse_text, cycles[c].impulse_node_id),
                       Turn("assistant", text, rec.id)>>
          /\ cycles' = [cycles EXCEPT ![c].pc = "lpush",
                                      ![c].final_response_text = text,
                                      ![c].final_response_node_id = rec.id]
    /\ graph_writers' = note_write(graph_writers, c)
    /\ UNCHANGED <<routing, services, report_futures, future_result, handlers, received,
                   redis_queue, mem_call, distills, client_out, disk>>

\* Stage 6 ends: the Redis push returned or raised (logged); send the response,
\* close() the memory, return the impulse id.
Closure(c, pushed) ==
    /\ c \in DOMAIN cycles
    /\ cycles[c].pc = "lpush"
    /\ redis_queue' = IF pushed THEN lpush(redis_queue, cycles[c].impulse_node_id)
                      ELSE redis_queue
    /\ client_out' = Put(client_out, c,
                         <<[msg_type |-> "RESPONSE",
                            message |-> cycles[c].final_response_text]>>)
    /\ \E closed \in {close(memory)} :
          /\ memory' = closed.memory
          /\ disk' = closed.disk
    /\ cycles' = [cycles EXCEPT ![c].pc = "done", ![c].pushed = pushed]
    /\ graph_writers' = note_write(graph_writers, c)
    /\ UNCHANGED <<routing, services, report_futures, future_result, calls, handlers,
                   received, mem_call, conversation_cache, distills>>

\* Task id and DialogueTurnNode of the d-th distillation.
DistillTaskId(d) == CycleTaskId(d, 4)

\* _distill_and_archive_pair starts: record the DialogueTurnNode, link it to the
\* archived nodes, execute_single_task(compress_memory_chunk) up to its await.
DistillStart(d) ==
    /\ d \in DOMAIN distills
    /\ distills[d].pc = "scheduled"
    /\ \E user_turn \in {distills[d].user_turn}, assistant_turn \in {distills[d].assistant_turn} :
          IF user_turn.node_id = Null \/ assistant_turn.node_id = Null
          THEN /\ distills' = [distills EXCEPT ![d].pc = "done"]
               /\ UNCHANGED <<memory, services, report_futures, calls, graph_writers>>
          ELSE \E rec \in
                      {record_entry(memory, NormalEnv(memory, CycleNodeBase(d, 4)),
                                    "DialogueTurnNode", "Awaiting distillation...",
                                    [archived_node_ids |->
                                        [t |-> "dict",
                                         v |-> [impulse_id |-> user_turn.node_id,
                                                response_id |-> assistant_turn.node_id]]],
                                    <<>>)} :
                  IF rec.id = Null
                  THEN /\ distills' = [distills EXCEPT ![d].pc = "done"]
                       /\ UNCHANGED <<memory, services, report_futures, calls, graph_writers>>
                  ELSE \E M1 \in {graph_add_edge(rec.memory, rec.id, user_turn.node_id,
                                                 "ARCHIVES_IMPULSE")} :
                       \E M2 \in {graph_add_edge(M1, rec.id, assistant_turn.node_id,
                                                 "ARCHIVES_RESPONSE")} :
                       \E r \in {execute_single_task(
                                    M2, services, report_futures,
                                    Task("compress_memory_chunk",
                                         [items_to_compress |-> <<user_turn, assistant_turn>>,
                                          is_distillation |-> TRUE],
                                         DistillTaskId(d), NoLink))} :
                          /\ memory' = r.memory
                          /\ services' = r.services
                          /\ report_futures' = r.report_futures
                          /\ calls' = with_calls(calls, <<r.frame>>)
                          /\ distills' = [distills EXCEPT ![d].pc = "compressing",
                                                          ![d].dialogue_turn_node_id = rec.id]
                          /\ graph_writers' =
                                 note_write(graph_writers, WriterOf(DistillTaskId(d)))
    /\ UNCHANGED <<routing, future_result, handlers, received, redis_queue, mem_call,
                   cycles, conversation_cache, client_out, disk>>

\* The ConceptNodes among the successors of the impulse get a CONTAINS_CONCEPT edge
\* from the DialogueTurnNode.
RECURSIVE link_turn_to_concepts(_, _, _)
link_turn_to_concepts(M, dialogue_turn_node_id, successor_ids) ==
    IF successor_ids = {} THEN M
    ELSE CHOOSE linked \in
             {link_turn_to_concepts(M1, dialogue_turn_node_id,
                                    successor_ids \ {Min(successor_ids)}) :
                M1 \in {IF M.nodes[Min(successor_ids)].type = "ConceptNode"
                        THEN graph_add_edge(M, dialogue_turn_node_id, Min(successor_ids),
                                            "CONTAINS_CONCEPT")
                        ELSE M}} : TRUE

\* _distill_and_archive_pair ends: the compressor's report is in; store the
\* distillate as the node's content and link the impulse's concepts.
DistillDone(d) ==
    /\ d \in DOMAIN distills
    /\ distills[d].pc = "compressing"
    /\ TaskReady(DistillTaskId(d))
    /\ \E aw \in {Awaited(memory, DistillTaskId(d))} :
       \E distillate_text \in
              {Get(aw.frame.report.data, "summary_text", "Distillation failed.")} :
       \E M1 \in {set_content(aw.memory, distills[d].dialogue_turn_node_id,
                              distillate_text)} :
          /\ memory' = link_turn_to_concepts(M1, distills[d].dialogue_turn_node_id,
                                             successors(M1, distills[d].user_turn.node_id))
          /\ calls' = [calls EXCEPT ![DistillTaskId(d)] = aw.frame]
    /\ distills' = [distills EXCEPT ![d].pc = "done"]
    /\ graph_writers' = note_write(graph_writers, WriterOf(DistillTaskId(d)))
    /\ UNCHANGED <<routing, services, report_futures, future_result, handlers, received,
                   redis_queue, mem_call, cycles, conversation_cache, client_out, disk>>

\* The recall calls of cycle c that asyncio.gather wraps.
RecallTaskIds(c) == {cycles[c].search_tasks[k].task_id : k \in 1..Len(cycles[c].search_tasks)}

CycleInit == Init

\* Everything that runs once impulses are in: the cycles' continuations, the
\* background distillations, the services' workers and wrappers.
CycleSteps ==
    \/ \E c \in DOMAIN cycles, answer \in TokenizerAnswers : TokenizerResponse(c, answer)
    \/ \E c \in DOMAIN cycles : InstinctDone(c)
    \/ \E c \in DOMAIN cycles : PlanDone(c)
    \/ \E c \in DOMAIN cycles : GatherStart(c)
    \/ \E c \in DOMAIN cycles : \E task_id \in RecallTaskIds(c) :
           ExecuteSingleTaskReturn(task_id)
    \/ \E c \in DOMAIN cycles : GatherDone(c)
    \/ \E c \in DOMAIN cycles : SynthesisDone(c)
    \/ \E c \in DOMAIN cycles, pushed \in BOOLEAN :
           (pushed \/ Failures < MaxFailures) /\ Closure(c, pushed)
    \/ \E d \in DOMAIN distills : DistillStart(d)
    \/ \E d \in DOMAIN distills : DistillDone(d)
    \/ \E service \in Services : WorkerDequeue(service)
    \/ \E task_id \in DOMAIN handlers :
           \E result \in handle_task(memory, handlers[task_id].task) :
               (result.kind # "raise" \/ Failures < MaxFailures)
               /\ ProcessTaskWrapper(task_id, result)

\* Several clients: an impulse may arrive while other cycles are running.
CycleNext ==
    \/ \E impulse_text \in Impulses : HandleUserImpulse(impulse_text)
    \/ CycleSteps

CycleSpec == CycleInit /\ [][CycleNext]_vars

\* No handle_user_impulse is running.
Idle == \A c \in DOMAIN cycles : cycles[c].pc \in {"done", "returned None"}

\* One client: handle_client reads the next input when handle_user_impulse has
\* returned.
SingleClientNext ==
    \/ \E impulse_text \in Impulses : Idle /\ HandleUserImpulse(impulse_text)
    \/ CycleSteps

SingleClientSpec == CycleInit /\ [][SingleClientNext]_vars

\* The event loop starts every task made with asyncio.create_task.  Nothing else
\* is assumed: clients, the tokenizer endpoint and the LLM are not obliged to act.
FairSingleClientSpec ==
    /\ SingleClientSpec
    /\ \A d \in 1..MaxCycles : WF_vars(DistillStart(d))

(***************************************************************************)
(* Claims about the cognitive cycle                                        *)
(***************************************************************************)
\* Cycle c has appended its user/assistant pair to the conversation cache.
AppendedPair(c) == c \in DOMAIN cycles /\ cycles[c].pc \in {"lpush", "done"}

\* The pair of cycle c is no longer in the cache: _manage_context removed it.
Evicted(c) ==
    /\ AppendedPair(c)
    /\ ~\E i \in 1..Len(conversation_cache) :
           conversation_cache[i].node_id = cycles[c].impulse_node_id

\* The _distill_and_archive_pair tasks scheduled for the pair of cycle c.
ArchivalTasks(c) ==
    {d \in DOMAIN distills :
        /\ distills[d].user_turn.node_id = cycles[c].impulse_node_id
        /\ distills[d].assistant_turn.node_id = cycles[c].final_response_node_id}

\* A DialogueTurnNode archiving the pair of cycle c is in the graph.
Archived(c) ==
    \E n \in DOMAIN memory.nodes :
        /\ c \in DOMAIN cycles
        /\ memory.nodes[n].type = "DialogueTurnNode"
        /\ memory.nodes[n].attrs.archived_node_ids.v =
               [impulse_id |-> cycles[c].impulse_node_id,
                response_id |-> cycles[c].final_response_node_id]

\* C5: every user/assistant pair that _manage_context removes from the cache has
\* exactly one _distill_and_archive_pair task scheduled for it, and a
\* DialogueTurnNode archiving the pair is eventually in the graph.
C5_EvictionArchived ==
    \A c \in 1..MaxCycles :
        /\ [](Evicted(c) => Cardinality(ArchivalTasks(c)) = 1)
        /\ (Evicted(c) ~> Archived(c))

\* A pair was evicted and its DialogueTurnNode recorded while the evicting cycle was
\* still running.
C5_Witness ==
    \E c \in DOMAIN cycles :
        /\ Evicted(c)
        /\ Archived(c)
        /\ \E c2 \in DOMAIN cycles : cycles[c2].pc \notin {"done", "tokenizing"}

\* receive_report was called with a Report for the task.
ReportIn(task_id) ==
    \E h \in DOMAIN received : \E i \in DOMAIN received[h] :
        received[h][i].source_task_id = task_id

\* execute_single_task was called for the task of this slot of cycle c.
Submitted(c, slot) == CycleTaskId(c, slot) \in DOMAIN calls

\* C6: in a cycle the instinct task is submitted after the UserImpulse is recorded
\* (its TaskNode links to it), the planning task only after the instinct report was
\* received, the synthesis task only after the report of every recall request of
\* the cycle was received; recall requests complete in any order.
C6_StageOrder ==
    \A c \in DOMAIN cycles :
        /\ Submitted(c, 1) =>
               /\ has_node(memory, cycles[c].impulse_node_id)
               /\ memory.nodes[cycles[c].impulse_node_id].type = "UserImpulse"
               /\ [src |-> calls[CycleTaskId(c, 1)].task_node_id,
                   dst |-> cycles[c].impulse_node_id, label |-> "IS_TASK_FOR"] \in memory.edges
        /\ Submitted(c, 2) => ReportIn(CycleTaskId(c, 1))
        /\ Submitted(c, 3) => \A task_id \in RecallTaskIds(c) : ReportIn(task_id)

\* One cycle submitted its synthesis after two recall requests while, in another,
\* the report of the second recall request is in before the report of the first.
C6_Witness ==
    \E c1, c2 \in DOMAIN cycles :
        /\ Submitted(c1, 3)
        /\ Len(cycles[c1].search_tasks) = 2
        /\ cycles[c2].pc = "recalling"
        /\ ReportIn(CycleTaskId(c2, 6))
        /\ ~ReportIn(CycleTaskId(c2, 5))

\* C7: the graph writes of two logical activities (two handle_user_impulse cycles,
\* or a cycle and a background distillation) never interleave: no activity writes
\* the graph again after another one wrote it.
C7_OneCycleMutates == ~graph_writers.interleaved

\* A FAILURE Report came back for one of the tasks of cycle c.
HadFailure(c) ==
    \E task_id \in DOMAIN calls :
        /\ WriterOf(task_id) = c
        /\ \/ calls[task_id].report.status = "FAILURE"
           \/ /\ task_id \in DOMAIN future_result
              /\ future_result[task_id].status = "FAILURE"

\* C10: a FAILURE Report for the instinct, planning, recall or synthesis task does
\* not abort the cycle: the coroutine goes on when the report is in, and it records
\* a FinalResponseNode, appends the user/assistant pair to the cache (from where
\* only _manage_context removes it) and sends the response to the client.
C10_FailureDoesNotAbort ==
    \A c \in DOMAIN cycles :
        HadFailure(c) =>
            /\ (cycles[c].pc = "instinct" /\ CycleTaskId(c, 1) \in DOMAIN future_result)
                   => ENABLED InstinctDone(c)
            /\ (cycles[c].pc = "planning" /\ CycleTaskId(c, 2) \in DOMAIN future_result)
                   => ENABLED PlanDone(c)
            /\ (cycles[c].pc = "recalling"
                /\ \A task_id \in RecallTaskIds(c) : calls[task_id].pc = "returned")
                   => ENABLED GatherDone(c)
            /\ (cycles[c].pc = "synthesis" /\ CycleTaskId(c, 3) \in DOMAIN future_result)
                   => ENABLED SynthesisDone(c)
            /\ cycles[c].pc \in {"lpush", "done"} =>
                   /\ has_node(memory, cycles[c].final_response_node_id)
                   /\ memory.nodes[cycles[c].final_response_node_id].type = "FinalResponseNode"
                   /\ memory.nodes[cycles[c].final_response_node_id].content
                          = cycles[c].final_response_text
                   /\ \/ ArchivalTasks(c) # {}
                      \/ \E i \in 1..(Len(conversation_cache) - 1) :
                            /\ conversation_cache[i] =
                                   Turn("user", cycles[c].impulse_text,
                                        cycles[c].impulse_node_id)
                            /\ conversation_cache[i + 1] =
                                   Turn("assistant", cycles[c].final_response_text,
                                        cycles[c].final_response_node_id)
            /\ cycles[c].pc = "done" =>
                   /\ c \in DOMAIN client_out
                   /\ client_out[c] = <<[msg_type |-> "RESPONSE",
                                         message |-> cycles[c].final_response_text]>>

\* A cycle whose synthesis task failed has ended, and a cycle whose recall request
\* failed has appended its pair.
C10_Witness ==
    \/ \E c \in DOMAIN cycles :
          /\ cycles[c].pc = "done"
          /\ calls[CycleTaskId(c, 3)].report.status = "FAILURE"
          /\ cycles[c].final_response_text = "An error occurred during synthesis."
    \/ \E c \in DOMAIN cycles :
          /\ cycles[c].pc = "done"
          /\ CycleTaskId(c, 5) \in DOMAIN calls
          /\ calls[CycleTaskId(c, 5)].report.status = "FAILURE"

(***************************************************************************)
(* Reflection: the !reflect command starts run_deep_reflection tasks in    *)
(* the background; ReflectionService merges the active insights of a topic.*)
(* The value of `source_concepts` ("a, b") is kept as the list of the      *)
(* names between its commas.                                               *)
(***************************************************************************)
\* Bounds: insights in the graph when reflection starts, !reflect commands.
MaxCrystals == 3
MaxReflections == 2

\* Python's order of the concept names (str comparison).
Rank(name) == IF name = "coffee" THEN 1 ELSE 2

\* sorted(pair)
sorted_pair(pair) == IF Rank(pair[1]) <= Rank(pair[2]) THEN pair ELSE <<pair[2], pair[1]>>

\* int(value) of an attribute: the int itself, or the int its str() is read back as.
int(attribute) == attribute.v

IntAttr(value) == [t |-> "int", v |-> value]

\* Node ids: the block of the insights the Crystallizer wrote, and the block of the
\* insights a reflection task writes.
CrystalBase == 200

ReflectNodeBase(task_id) == 300 + 10 * task_id

\* for concept_name in pair: get_or_create_concept_node, then the edge
\* INSIGHT_FROM_CONCEPT from the insight.
RECURSIVE link_insight(_, _, _)
link_insight(M, crystal_id, names) ==
    IF names = <<>> THEN M
    ELSE CHOOSE linked \in
             {link_insight(IF r.id # Null
                           THEN graph_add_edge(r.memory, crystal_id, r.id,
                                               "INSIGHT_FROM_CONCEPT")
                           ELSE r.memory,
                           crystal_id, Tail(names)) :
                r \in {get_or_create_concept_node(
                           M, NormalEnv(M, ConceptBase(Head(names))), Head(names))}} : TRUE

\* CrystallizerService.handle_task, the body of its loop: the insight of one pair,
\* recorded active with strength 1 (the dialogue it came from is not kept here).
crystallize(M, pair) ==
    CHOOSE written \in
        {IF rec.id = Null THEN rec.memory ELSE link_insight(rec.memory, rec.id, pair) :
            rec \in {record_entry(M, NormalEnv(M, CrystalBase), "KnowledgeCrystalNode",
                                  "insight",
                                  [source_concepts |-> sorted_pair(pair),
                                   source_impulse |-> Null,
                                   active_status |-> IntAttr(1),
                                   strength |-> IntAttr(1)],
                                  <<>>)}} : TRUE

\* The graph after the Crystallizer handled the pairs, one after the other.
RECURSIVE crystallized(_, _)
crystallized(M, pairs) ==
    IF pairs = <<>> THEN M
    ELSE CHOOSE after \in
             {crystallized(first, Tail(pairs)) : first \in {crystallize(M, Head(pairs))}} : TRUE

\* Pairs of concepts the Crystallizer wrote insights about.
SeedPairs == {<<"coffee", "press">>, <<"press", "coffee">>, <<"press", "press">>}

\* The topic of a node as the scan reads it: the sorted names of source_concepts
\* when there are two, none otherwise.
topic_of(data) ==
    IF Len(Get(data.attrs, "source_concepts", <<>>)) = 2
    THEN sorted_pair(data.attrs.source_concepts)
    ELSE <<>>

\* The scan: the KnowledgeCrystalNodes with int(active_status) = 1.
ActiveInsights(M) ==
    {n \in DOMAIN M.nodes :
        /\ M.nodes[n].type = "KnowledgeCrystalNode"
        /\ int(Get(M.nodes[n].attrs, "active_status", IntAttr(0))) = 1}

\* active_insights_by_topic[topic]: the copies of the node data, here the
\* strength each insight had at the scan.
insights_of(M, topic) ==
    [n \in {a \in ActiveInsights(M) : topic_of(M.nodes[a]) = topic} |->
        int(Get(M.nodes[n].attrs, "strength", IntAttr(1)))]

Topics == {sorted_pair(<<a, b>>) : a, b \in ConceptNames}

\* A dict iterates in insertion order: topics in the order of their first insight
\* (insights are scanned in the order they were recorded).
RECURSIVE in_scan_order(_)
in_scan_order(entries) ==
    IF entries = {} THEN <<>>
    ELSE CHOOSE ordered \in
             {<<first>> \o in_scan_order(entries \ {first}) :
                first \in {CHOOSE e \in entries :
                              \A o \in entries :
                                  Min(DOMAIN e.insights) <= Min(DOMAIN o.insights)}} : TRUE

\* topics_to_merge: the topics with two active insights or more.
topics_to_merge(M) ==
    in_scan_order({entry \in {[topic |-> topic, insights |-> insights_of(M, topic)] :
                                 topic \in Topics} :
                      Cardinality(DOMAIN entry.insights) >= 2})

\* sum(int(insight.get("strength", 1)) for insight in insights_to_merge)
RECURSIVE strength_sum(_)
strength_sum(insights) ==
    IF DOMAIN insights = {} THEN 0
    ELSE CHOOSE total \in
             {insights[n] + strength_sum(Drop(insights, n)) :
                n \in {CHOOSE x \in DOMAIN insights : TRUE}} : TRUE

\* graph.nodes[old_insight["id"]]["active_status"] = 0 for the insights still there.
supersede(M, ids) ==
    [M EXCEPT !.nodes =
        [n \in DOMAIN M.nodes |->
            IF n \in ids
            THEN [M.nodes[n] EXCEPT !.attrs = Put(@, "active_status", IntAttr(0))]
            ELSE M.nodes[n]]]

\* The body of the loop over topics_to_merge after the LLM answered new_content.
merge_topic(M, base, entry, new_content) ==
    CHOOSE merged \in
        {IF rec.id = Null THEN rec.memory
         ELSE supersede(link_insight(rec.memory, rec.id, entry.topic),
                        DOMAIN entry.insights) :
            rec \in {record_entry(M, NormalEnv(M, base), "KnowledgeCrystalNode",
                                  new_content,
                                  [source_concepts |-> entry.topic,
                                   active_status |-> IntAttr(1),
                                   strength |-> IntAttr(strength_sum(entry.insights))],
                                  <<>>)}} : TRUE

\* The LLM's text for a merged insight (LLMInterface.generate returns a text also
\* when the request fails).
VerifiedInsights == {"verified insight"}

\* handle_task returns: close(), then the wrapper hands the Report to
\* receive_report.  M is the graph the handler leaves.
ReflectionReturn(task_id, M, frame) ==
    \E closed \in {close(M)} :
    \E r \in {receive_report(
                  closed.memory, report_futures, future_result,
                  wrapper_report(frame.task,
                                 Succeeded([message |-> "Deep reflection cycle completed."],
                                           NoLink)))} :
       /\ memory' = r.memory
       /\ disk' = closed.disk
       /\ report_futures' = r.report_futures
       /\ future_result' = r.future_result
       /\ received' = [received EXCEPT ![task_id] = Append(@, r.report)]
       /\ handlers' = [handlers EXCEPT ![task_id] =
                          [frame EXCEPT !.pc = "done", !.result = "report"]]

\* CommandProcessor.execute, !reflect: execute_single_task runs in a task of its
\* own, the command returns at once.
ReflectCommand ==
    /\ Cardinality(DOMAIN calls) < MaxReflections
    /\ ExecuteSingleTask("run_deep_reflection")

\* ReflectionService.handle_task up to its first suspension: the scan, and with
\* nothing to merge the return.
ReflectScan(task_id) ==
    /\ task_id \in DOMAIN handlers
    /\ handlers[task_id].pc = "running"
    /\ handlers[task_id].task.type = "run_deep_reflection"
    /\ \E frame \in {[service |-> handlers[task_id].service,
                      task |-> handlers[task_id].task,
                      pc |-> "generating", result |-> "running",
                      topics |-> topics_to_merge(memory), next |-> 1]} :
          IF frame.topics = <<>>
          THEN ReflectionReturn(task_id, memory, frame)
          ELSE /\ handlers' = [handlers EXCEPT ![task_id] = frame]
               /\ UNCHANGED <<memory, disk, report_futures, future_result, received>>
    /\ UNCHANGED <<routing, services, calls, redis_queue, mem_call, cycles,
                   conversation_cache, distills, client_out, graph_writers>>

\* _generate_verified_insight answered for the topic at hand: the merge, then the
\* request for the next topic or the return.
ReflectMerge(task_id, new_content) ==
    /\ task_id \in DOMAIN handlers
    /\ handlers[task_id].pc = "generating"
    /\ \E frame \in {[handlers[task_id] EXCEPT !.next = @ + 1]} :
       \E merged \in {merge_topic(memory, ReflectNodeBase(task_id),
                                  handlers[task_id].topics[handlers[task_id].next],
                                  new_content)} :
          IF frame.next > Len(frame.topics)
          THEN ReflectionReturn(task_id, merged, frame)
          ELSE /\ memory' = merged
               /\ handlers' = [handlers EXCEPT ![task_id] = frame]
               /\ UNCHANGED <<disk, report_futures, future_result, received>>
    /\ UNCHANGED <<routing, services, calls, redis_queue, mem_call, cycles,
                   conversation_cache, distills, client_out, graph_writers>>

\* The graph holds the insights the Crystallizer wrote in earlier cycles, saved
\* (close() after a cycle) or not yet.
ReflectInit ==
    /\ \E n \in 2..MaxCrystals : \E pairs \in [1..n -> SeedPairs] :
       \E seeded \in {crystallized(EmptyMemory, pairs)} :
       \E closed \in {close(seeded)} :
          \/ memory = seeded /\ disk = NoFiles
          \/ memory = closed.memory /\ disk = closed.disk
    /\ routing = RoutingTable(Services)
    /\ services = [s \in Services |-> start(NewService)]
    /\ report_futures = {}
    /\ future_result = <<>>
    /\ calls = <<>>
    /\ handlers = <<>>
    /\ received = <<>>
    /\ redis_queue = <<>>
    /\ mem_call = NoCall
    /\ cycles = <<>>
    /\ conversation_cache = <<>>
    /\ distills = <<>>
    /\ client_out = <<>>
    /\ graph_writers = [seen |-> {}, last |-> 0, interleaved |-> FALSE]

ReflectNext ==
    \/ ReflectCommand
    \/ \E task_id \in DOMAIN calls : ExecuteSingleTaskReturn(task_id)
    \/ WorkerDequeue("ReflectionService")
    \/ \E task_id \in DOMAIN handlers : ReflectScan(task_id)
    \/ \E task_id \in DOMAIN handlers, new_content \in VerifiedInsights :
           ReflectMerge(task_id, new_content)

ReflectSpec == ReflectInit /\ [][ReflectNext]_vars

\* The active insights of a topic, their number and the sum of their strengths.
ActiveOf(M, topic) == {n \in ActiveInsights(M) : topic_of(M.nodes[n]) = topic}

ActiveCount(topic) == Cardinality(ActiveOf(memory, topic))

ActiveStrength(topic) == strength_sum(insights_of(memory, topic))

\* C8: after a reflection run, every topic that had k >= 2 active insights at the
\* run's scan has exactly one new active KnowledgeCrystalNode, whose strength is the
\* sum of the k strengths, and the k merged nodes are in the graph with
\* active_status 0.
C8_MergedIntoOne ==
    \A task_id \in DOMAIN handlers :
        (handlers[task_id].pc = "done" /\ handlers[task_id].task.type = "run_deep_reflection")
        => \A i \in 1..Len(handlers[task_id].topics) :
              \E entry \in {handlers[task_id].topics[i]} :
                 /\ \A old \in DOMAIN entry.insights :
                       /\ has_node(memory, old)
                       /\ int(memory.nodes[old].attrs.active_status) = 0
                 /\ \E new \in ActiveOf(memory, entry.topic) :
                       /\ ActiveOf(memory, entry.topic) = {new}
                       /\ new \notin DOMAIN entry.insights
                       /\ int(memory.nodes[new].attrs.strength) = strength_sum(entry.insights)

\* C9: no step of any interleaving of run_deep_reflection tasks changes the sum
\* of the strengths of a topic's active insights or raises their number.
C9_StrengthConserved ==
    [][\A topic \in Topics :
           /\ ActiveStrength(topic)' = ActiveStrength(topic)
           /\ ActiveCount(topic)' <= ActiveCount(topic)]_vars

(***************************************************************************)
(* The life cycle of a service: start() and stop() called one after the    *)
(* other (Orchestrator.start_all_services, stop_all_services), tasks       *)
(* pushed and handled meanwhile.                                           *)
(***************************************************************************)
\* Bounds: worker tasks created per service, execute_single_task calls.
MaxStarts == 2
MaxPushes == 2

\* The services whose start() and stop() are called here: one with the worker
\* loop of the base class, one with a loop of its own.
LifecycleServices == {"SimpleExecutorService", "CrystallizerService"}

\* await service.start(): it never suspends.
StartService(service) ==
    /\ ~services[service].stopping
    /\ services[service].is_running \/ Len(services[service].tasks) < MaxStarts
    /\ services' = [services EXCEPT ![service] = start(@)]
    /\ UNCHANGED <<memory, routing, report_futures, future_result, calls, handlers,
                   received, redis_queue>>
    /\ UNCHANGED <<mem_call, cycle_vars, graph_writers>>

\* await service.stop(), up to `await self._worker_task`.
StopService(service) ==
    /\ ~services[service].stopping
    /\ services' = [services EXCEPT ![service] = stop(@)]
    /\ UNCHANGED <<memory, routing, report_futures, future_result, calls, handlers,
                   received, redis_queue>>
    /\ UNCHANGED <<mem_call, cycle_vars, graph_writers>>

\* The cancelled worker runs: CancelledError is raised at its await and the loop
\* is left (`break`, or the error ends the task).
WorkerCancelled(service) ==
    /\ \E w \in DOMAIN services[service].tasks :
          /\ services[service].tasks[w] = "cancelling"
          /\ services' = [services EXCEPT ![service].tasks[w] = "ended"]
    /\ UNCHANGED <<memory, routing, report_futures, future_result, calls, handlers,
                   received, redis_queue>>
    /\ UNCHANGED <<mem_call, cycle_vars, graph_writers>>

\* stop() resumes when the worker task has ended, and returns.
StopReturn(service) ==
    /\ services[service].stopping
    /\ services[service].tasks[services[service].worker_task] = "ended"
    /\ services' = [services EXCEPT ![service].stopping = FALSE]
    /\ UNCHANGED <<memory, routing, report_futures, future_result, calls, handlers,
                   received, redis_queue>>
    /\ UNCHANGED <<mem_call, cycle_vars, graph_writers>>

\* A caller submits a task to one of the two services.
PushTask(type) ==
    /\ Cardinality(DOMAIN calls) < MaxPushes
    /\ ExecuteSingleTask(type)

\* Every service constructed and registered, none started.
ServiceInit ==
    /\ memory = EmptyMemory
    /\ routing = RoutingTable(Services)
    /\ services = [s \in Services |-> NewService]
    /\ report_futures = {}
    /\ future_result = <<>>
    /\ calls = <<>>
    /\ handlers = <<>>
    /\ received = <<>>
    /\ redis_queue = <<>>
    /\ mem_call = NoCall
    /\ cycles = <<>>
    /\ conversation_cache = <<>>
    /\ distills = <<>>
    /\ client_out = <<>>
    /\ disk = NoFiles
    /\ graph_writers = [seen |-> {}, last |-> 0, interleaved |-> FALSE]

ServiceNext ==
    \/ \E service \in LifecycleServices : StartService(service)
    \/ \E service \in LifecycleServices : StopService(service)
    \/ \E service \in LifecycleServices : WorkerCancelled(service)
    \/ \E service \in LifecycleServices : StopReturn(service)
    \/ \E type \in {"generate_instinctive_response", "crystallize_dialogue"} : PushTask(type)
    \/ \E task_id \in DOMAIN calls : ExecuteSingleTaskReturn(task_id)
    \/ \E service \in LifecycleServices : WorkerDequeue(service)
    \/ PushCrystallizationJob
    \/ CrystallizerWorker
    \/ \E task_id \in DOMAIN handlers, result \in HandleTaskResults :
           ProcessTaskWrapper(task_id, result)

ServiceSpec == ServiceInit /\ [][ServiceNext]_vars

\* The event loop runs every task that is ready: workers, cancelled workers,
\* wrappers, resumed callers.  Callers of start(), stop() and execute_single_task
\* are not obliged to act.
FairServiceSpec ==
    /\ ServiceSpec
    /\ \A service \in LifecycleServices : WF_vars(WorkerDequeue(service))
    /\ \A service \in LifecycleServices : WF_vars(WorkerCancelled(service))
    /\ WF_vars(\E task_id \in DOMAIN handlers, result \in HandleTaskResults :
                   ProcessTaskWrapper(task_id, result))

\* C11: a service is Stopped or Running; start() on a Stopped service makes it
\* Running with one worker loop, stop() makes it Stopped and returns when the
\* cancelled loop has ended, start() on a Running and stop() on a Stopped service
\* change nothing; between calls a worker loop exists exactly when the service is
\* Running, and there is never more than one.
C11_OneWorkerWhenRunning ==
    \A service \in Services :
        \E svc \in {services[service]} :
            /\ Cardinality(WorkerLoops(svc)) <= 1
            /\ ~svc.stopping => (svc.is_running <=> Cardinality(WorkerLoops(svc)) = 1)
            /\ svc.is_running => start(svc) = svc
            /\ ~svc.is_running => stop(svc) = svc
            /\ ~svc.is_running =>
                   /\ start(svc).is_running
                   /\ Cardinality(LiveWorkers(start(svc))) = 1
            /\ svc.is_running =>
                   /\ ~stop(svc).is_running
                   /\ LiveWorkers(stop(svc)) = {}
            /\ svc.stopping =>
                   /\ ~svc.is_running
                   /\ svc.tasks[svc.worker_task] \in {"cancelling", "ended"}

\* A service was started, stopped and started again: its first loop has ended,
\* its second one is at work.
C11_Witness ==
    \E service \in LifecycleServices :
        /\ services[service].is_running
        /\ services[service].tasks = <<"ended", "running">>

\* The task is in the service's queue.
Queued(service, task_id) ==
    \E i \in 1..Len(services[service].task_queue) :
        services[service].task_queue[i].task_id = task_id

\* A handle_task of the service has raised.
SomeRaised(service) ==
    \E h \in DOMAIN handlers :
        handlers[h].service = service /\ handlers[h].result = "raise"

\* The task was dequeued and its wrapper has run to its end.
Handled(task_id) == task_id \in DOMAIN handlers /\ handlers[task_id].pc = "done"

\* C12: once a handle_task of a service has raised, every task in the service's
\* queue is still dequeued and handled unless the service is stopped; and a worker
\* loop ends only after stop() cancelled it.
C12_WorkerSurvivesFailures ==
    /\ \A service \in LifecycleServices : \A task_id \in 1..MaxPushes :
           [](Queued(service, task_id) /\ SomeRaised(service)
                  => <>(Handled(task_id) \/ ~services[service].is_running))
    /\ [][\A service \in LifecycleServices : \A w \in DOMAIN services[service].tasks :
              (services[service].tasks[w] # "ended" /\ services'[service].tasks[w] = "ended")
                  => /\ services[service].tasks[w] = "cancelling"
                     /\ ~services[service].is_running]_vars

(***************************************************************************)
(* receive_report called with any Report: for a task that is pending, for  *)
(* one already answered, for one never submitted.                          *)
(***************************************************************************)
\* Bound: receive_report calls made besides those of the wrappers.
MaxStray == 1

\* The entry of `received` that logs the calls made besides the wrappers'.
StrayLog == 0

\* Some coroutine calls receive_report with a Report naming task_id.
ReceiveReport(task_id, status) ==
    /\ Len(Get(received, StrayLog, <<>>)) < MaxStray
    /\ \E r \in {receive_report(memory, report_futures, future_result,
                                Report(status, "generate_instinctive_response",
                                       [text |-> "again"], CorrelationOf(task_id),
                                       task_id))} :
          /\ memory' = r.memory
          /\ report_futures' = r.report_futures
          /\ future_result' = r.future_result
          /\ received' = Put(received, StrayLog,
                             Append(Get(received, StrayLog, <<>>), r.report))
    /\ UNCHANGED <<routing, services, calls, handlers, redis_queue>>
    /\ UNCHANGED <<mem_call, cycle_vars, graph_writers>>

ReportNext ==
    \/ Next
    \/ \E task_id \in 1..(MaxTasks + 1), status \in {"SUCCESS", "FAILURE"} :
           ReceiveReport(task_id, status)

ReportSpec == Init /\ [][ReportNext]_vars

\* The Reports receive_report is called with in the step at hand.
ReportsOfStep ==
    {received'[h][Len(received'[h])] :
        h \in {k \in DOMAIN received' :
                  Len(received'[k]) > Len(Get(received, k, <<>>))}}

\* C13: a receive_report call for a source_task_id without a pending future
\* (never submitted, or already answered) fulfils no future and leaves the map of
\* pending futures as it is; the result a future was given never changes, nor does
\* the report a caller got.
C13_StrayReportDropped ==
    [][/\ \A report \in ReportsOfStep :
              report.source_task_id \notin report_futures
                  => /\ report_futures' = report_futures
                     /\ future_result' = future_result
                     /\ calls' = calls
       /\ \A task_id \in DOMAIN future_result :
              future_result'[task_id] = future_result[task_id]
       /\ \A task_id \in DOMAIN calls :
              calls[task_id].pc = "returned" => calls'[task_id] = calls[task_id]]_vars

\* A second Report, with another status, has come for a task whose future was
\* fulfilled by the first.
C13_Witness ==
    \E i \in 1..Len(Get(received, StrayLog, <<>>)) :
        \E report \in {received[StrayLog][i]} :
           /\ report.source_task_id \in DOMAIN future_result
           /\ future_result[report.source_task_id].status # report.status
           /\ future_result[report.source_task_id].report_node_id < report.report_node_id

(***************************************************************************)
(* The trace execute_single_task leaves in the graph                       *)
(***************************************************************************)
\* The tasks submit_task pushed: those waiting in a service's queue and those a
\* base worker took from it.
PushedTasks ==
    UNION {{services[s].task_queue[i] : i \in DOMAIN services[s].task_queue} :
              s \in Services}
    \cup {handlers[h].task : h \in {k \in DOMAIN handlers : ~OverridesWorker(handlers[k].service)}}

\* The node the graph holds for a task: of type TaskNode, carrying its task_id.
TaskNodeOf(task_id) == get_node_by_task_id(memory, task_id)

\* C14: for every execute_single_task call the TaskNode is in the graph once the
\* task is pushed, and the ReportNode is in the graph once the caller's future is
\* fulfilled; a call that returned a report with a report_node_id left an
\* IS_RESULT_OF edge from that ReportNode to the TaskNode whose task_id is the
\* report's source_task_id.
C14_TraceOfSingleTask ==
    /\ \A task_id \in DOMAIN calls :
           /\ has_node(memory, calls[task_id].task_node_id)
           /\ memory.nodes[calls[task_id].task_node_id].type = "TaskNode"
           /\ TaskNodeOf(task_id) = calls[task_id].task_node_id
    /\ \A task \in PushedTasks :
           /\ task.task_id \in DOMAIN calls
           /\ has_node(memory, TaskNodeOf(task.task_id))
    /\ \A task_id \in DOMAIN future_result :
           /\ has_node(memory, future_result[task_id].report_node_id)
           /\ memory.nodes[future_result[task_id].report_node_id].type = "ReportNode"
    /\ \A task_id \in DOMAIN calls :
           calls[task_id].pc = "returned" /\ calls[task_id].report.report_node_id # Null
               => /\ memory.nodes[calls[task_id].report.report_node_id].type = "ReportNode"
                  /\ [src |-> calls[task_id].report.report_node_id,
                      dst |-> TaskNodeOf(calls[task_id].report.source_task_id),
                      label |-> "IS_RESULT_OF"] \in memory.edges

\* A call returned the report of its task, stamped with the id of its ReportNode.
C14_Witness ==
    \E task_id \in DOMAIN calls :
        /\ calls[task_id].pc = "returned"
        /\ calls[task_id].report.report_node_id # Null
        /\ calls[task_id].report.source_task_id = task_id
        /\ calls[task_id].report.status = "SUCCESS"

(***************************************************************************)
(* Task.link_to                                                            *)
(***************************************************************************)
\* The edge the task's link_to asks for: from the task's node to the target.
LinkEdge(task_id) ==
    [src |-> calls[task_id].task_node_id,
     dst |-> calls[task_id].task.link_to.target_id,
     label |-> calls[task_id].task.link_to.label]

\* The execute_single_task calls whose task carries a link_to.
LinkingCalls == {task_id \in DOMAIN calls : calls[task_id].task.link_to # NoLink}

\* C15 as the code has it: the link_to of a task is applied when its TaskNode is
\* recorded, before the task is submitted: from the moment the call exists the
\* graph holds the edge from the TaskNode to the target (a node of the graph),
\* whether or not a Report for the task has been received.
C15_LinkAppliedWithTaskNode ==
    \A task_id \in LinkingCalls :
        /\ has_node(memory, calls[task_id].task.link_to.target_id)
        /\ LinkEdge(task_id) \in memory.edges

\* A task's link is in the graph while no Report for the task has been received
\* and its service has not even taken it from the queue.
C15_Witness ==
    \E task_id \in LinkingCalls :
        /\ LinkEdge(task_id) \in memory.edges
        /\ ~ReportIn(task_id)
        /\ task_id \notin DOMAIN handlers
        /\ calls[task_id].pc = "awaiting"

\* C15 as stated: the link_to of a task is applied only after the Report for that
\* task has been recorded as a node.
C15_LinkAppliedAfterReport ==
    \A task_id \in LinkingCalls :
        LinkEdge(task_id) \in memory.edges => ReportIn(task_id)

(***************************************************************************)
(* Enrichment execution: the recall requests of a plan                     *)
(***************************************************************************)
\* enrichment_plan_report, once execute_single_task returned it.
PlanReport(c) == calls[CycleTaskId(c, 2)].report

\* `enrichment_plan_report.status == "SUCCESS" and enrichment_plan_report.report_node_id`
PlanSucceeded(c) ==
    /\ CycleTaskId(c, 2) \in DOMAIN calls
    /\ calls[CycleTaskId(c, 2)].pc = "returned"
    /\ PlanReport(c).status = "SUCCESS"
    /\ PlanReport(c).report_node_id # Null

\* The execute_single_task calls of cycle c for recall_request tasks.
RecallCalls(c) ==
    {task_id \in DOMAIN calls :
        calls[task_id].task.type = "recall_request" /\ WriterOf(task_id) = c}

\* The SearchPlanNode(s) recorded for the plan report of cycle c.
SearchPlanNodes(c) ==
    {n \in DOMAIN memory.nodes :
        /\ memory.nodes[n].type = "SearchPlanNode"
        /\ [src |-> n, dst |-> PlanReport(c).report_node_id, label |-> "CONTAINS_PLAN"]
               \in memory.edges}

\* The task was pushed to the service its type is routed to: it waits in the
\* service's queue or the service's worker took it.
InService(task_id) ==
    \/ \E i \in DOMAIN services[routing[calls[task_id].task.type]].task_queue :
           services[routing[calls[task_id].task.type]].task_queue[i] = calls[task_id].task
    \/ /\ task_id \in DOMAIN handlers
       /\ handlers[task_id].service = routing[calls[task_id].task.type]

\* C16: for a plan report with status SUCCESS holding n queries the cycle
\* dispatches exactly n recall_request tasks: none while the gather has not run,
\* and from then on all n, every one pushed to the recall service before the
\* report of any of them is in; the TaskNode of each has an IS_TASK_FOR edge to the
\* SearchPlanNode of the cycle.
C16_RecallDispatch ==
    \A c \in DOMAIN cycles :
        PlanSucceeded(c) =>
            /\ Cardinality(RecallCalls(c)) =
                   IF cycles[c].pc = "gather" THEN 0
                   ELSE Len(Get(PlanReport(c).data, "queries", <<>>))
            /\ Cardinality(SearchPlanNodes(c)) = 1
            /\ \A task_id \in RecallCalls(c) :
                   /\ routing[calls[task_id].task.type] = "MemoryRecallService"
                   /\ InService(task_id)
                   /\ \A n \in SearchPlanNodes(c) :
                          [src |-> calls[task_id].task_node_id, dst |-> n,
                           label |-> "IS_TASK_FOR"] \in memory.edges

\* The plan of a cycle held two queries: both recall requests wait in the recall
\* service's queue, no report of either is in, and the cycle awaits their gather.
C16_Witness ==
    \E c \in DOMAIN cycles :
        /\ PlanSucceeded(c)
        /\ Len(Get(PlanReport(c).data, "queries", <<>>)) = 2
        /\ cycles[c].pc = "recalling"
        /\ Cardinality(RecallCalls(c)) = 2
        /\ \A task_id \in RecallCalls(c) :
               /\ ~ReportIn(task_id)
               /\ task_id \notin DOMAIN handlers
               /\ InService(task_id)

(***************************************************************************)
(* Context management on a cache of several pairs: the cycles of one       *)
(* client, started with the cache that earlier cycles left.                *)
(***************************************************************************)
\* Bound: pairs in the cache when the first cycle of the specification starts.
MaxPriorPairs == 3

\* Node ids of the UserImpulse and the FinalResponseNode of the j-th earlier cycle.
PriorNodeBase(j) == 30 + 10 * j

\* The answer of the j-th earlier cycle: the oldest may have been a long one.
PriorAnswer(j, long) == IF long /\ j = 1 THEN LongText ELSE "final answer"

\* The cache after k earlier cycles: their pairs, oldest first.
PriorCache(k, long) ==
    [i \in 1..(2 * k) |->
        IF i % 2 = 1 THEN Turn("user", "hello", PriorNodeBase((i + 1) \div 2))
        ELSE Turn("assistant", PriorAnswer(i \div 2, long), PriorNodeBase(i \div 2) + 1)]

\* The nodes the entries of that cache name, as the earlier cycles recorded them
\* (what else those cycles recorded is left out).
RECURSIVE PriorMemory(_, _)
PriorMemory(k, long) ==
    IF k = 0 THEN EmptyMemory
    ELSE CHOOSE M2 \in
             {r2.memory :
                 r2 \in {record_entry(r1.memory, NormalEnv(r1.memory, PriorNodeBase(k)),
                                      "FinalResponseNode", PriorAnswer(k, long), <<>>,
                                      <<LinkDirective(r1.id, "IS_RESPONSE_TO")>>) :
                            r1 \in {record_entry(PriorMemory(k - 1, long),
                                                 NormalEnv(PriorMemory(k - 1, long),
                                                           PriorNodeBase(k)),
                                                 "UserImpulse", "hello", <<>>, <<>>)}}} : TRUE

ContextInit ==
    /\ \E k \in 0..MaxPriorPairs, long \in BOOLEAN :
           /\ conversation_cache = PriorCache(k, long)
           /\ memory = PriorMemory(k, long)
    /\ routing = RoutingTable(Services)
    /\ services = [s \in Services |-> start(NewService)]
    /\ report_futures = {}
    /\ future_result = <<>>
    /\ calls = <<>>
    /\ handlers = <<>>
    /\ received = <<>>
    /\ redis_queue = <<>>
    /\ mem_call = NoCall
    /\ cycles = <<>>
    /\ distills = <<>>
    /\ client_out = <<>>
    /\ disk = NoFiles
    /\ graph_writers = [seen |-> {}, last |-> 0, interleaved |-> FALSE]

\* Bound: cycles run on top of the earlier cache.
MaxContextCycles == 1

\* One client sends impulses, one after the other.
ContextNext ==
    \/ \E impulse_text \in Impulses :
           /\ Idle
           /\ Cardinality(DOMAIN cycles) < MaxContextCycles
           /\ HandleUserImpulse(impulse_text)
    \/ CycleSteps

ContextSpec == ContextInit /\ [][ContextNext]_vars

\* The characters of the first j pairs of the cache.
RemovedChars(cache, j) == SeqSum([i \in 1..(2 * j) |-> len(cache[i].content)])

\* total_size, in thirds of a token, once j pairs were popped.
EstimateAfter(cache, impulse_text, answer, j) ==
    3 * answer.tokens + len(impulse_text) - RemovedChars(cache, j)

\* `total_size > safe_limit` once j pairs were popped.
OverLimit(cache, impulse_text, answer, j) ==
    EstimateAfter(cache, impulse_text, answer, j) > 3 * safe_limit

\* The number of pairs after which the loop stops: the least j with the estimate
\* at or below the limit or with fewer than two entries left.
PairsToEvict(cache, impulse_text, answer) ==
    Min({j \in 0..(Len(cache) \div 2) :
            \/ ~OverLimit(cache, impulse_text, answer, j)
            \/ Len(cache) - 2 * j < 2})

\* The cycle c leaves _manage_context in the step at hand.
LeavesManageContext(c) ==
    /\ c \in DOMAIN cycles
    /\ cycles[c].pc = "tokenizing"
    /\ cycles'[c].pc # "tokenizing"

\* C17: when the tokenizer's count plus the impulse estimate exceeds the safe limit,
\* _manage_context removes whole pairs from the head of the cache, oldest first,
\* pair by pair, and stops as soon as the running estimate is at or below the limit
\* or fewer than two entries are left: what survives is a suffix of the cache, the
\* popped pairs are handed on in their order, and a cache whose estimate fits is
\* left as it is.  Every cycle that leaves _manage_context leaves the cache so.
C17_EvictsOldestPairs ==
    /\ [](\A impulse_text \in Impulses :
          \A answer \in {a \in TokenizerAnswers : a.ok} :
          \E r \in {manage_context(conversation_cache, impulse_text, answer)} :
          \E k \in {PairsToEvict(conversation_cache, impulse_text, answer)} :
             /\ r.cache = SubSeq(conversation_cache, 2 * k + 1, Len(conversation_cache))
             /\ r.spawned = [j \in 1..k |->
                                [user_turn |-> conversation_cache[2 * j - 1],
                                 assistant_turn |-> conversation_cache[2 * j]]]
             /\ ~OverLimit(conversation_cache, impulse_text, answer, 0)
                    => r.cache = conversation_cache /\ r.spawned = <<>>
             /\ \A j \in 0..(k - 1) :
                    /\ OverLimit(conversation_cache, impulse_text, answer, j)
                    /\ Len(conversation_cache) - 2 * j >= 2)
    /\ [][\A c \in DOMAIN cycles :
             LeavesManageContext(c) =>
                 \E answer \in TokenizerAnswers :
                 \E r \in {manage_context(conversation_cache, cycles[c].impulse_text,
                                          answer)} :
                    /\ conversation_cache' = r.cache
                    /\ distills' = create_distill_tasks(distills, r.spawned)]_vars

\* Of a cache of three pairs the two oldest were popped and handed on, the
\* youngest survived, and the cycle went on.
C17_Witness ==
    /\ Len(distills) = 2
    /\ distills[1].user_turn.node_id = PriorNodeBase(1)
    /\ distills[2].user_turn.node_id = PriorNodeBase(2)
    /\ Len(conversation_cache) = 2
    /\ conversation_cache[1].node_id = PriorNodeBase(3)
    /\ \E c \in DOMAIN cycles : cycles[c].pc = "instinct"

(***************************************************************************)
(* The shape of the conversation cache                                     *)
(***************************************************************************)
\* The cache is a sequence of pairs: a user entry, then an assistant entry.
PairedCache(cache) ==
    /\ Len(cache) % 2 = 0
    /\ \A i \in DOMAIN cache :
           cache[i].role = IF i % 2 = 1 THEN "user" ELSE "assistant"

\* C18: in every reachable state, cycles and evictions interleaving as they may,
\* the cache has even length and alternates user and assistant entries, a user
\* entry first; a step changes the cache only by appending one whole pair at the
\* tail or by removing whole pairs at the head.
C18_CacheOfPairs ==
    /\ [](PairedCache(conversation_cache))
    /\ [][\/ conversation_cache' = conversation_cache
          \/ /\ Len(conversation_cache') = Len(conversation_cache) + 2
             /\ SubSeq(conversation_cache', 1, Len(conversation_cache)) = conversation_cache
             /\ PairedCache(SubSeq(conversation_cache', Len(conversation_cache) + 1,
                                   Len(conversation_cache')))
          \/ \E k \in 1..(Len(conversation_cache) \div 2) :
                conversation_cache' =
                    SubSeq(conversation_cache, 2 * k + 1, Len(conversation_cache))]_vars

\* The second cycle popped the pair of the first while the first had not returned
\* yet, and has appended its own pair since.
C18_Witness ==
    /\ Len(distills) = 1
    /\ 2 \in DOMAIN cycles
    /\ cycles[1].pc = "lpush"
    /\ distills[1].user_turn.node_id = cycles[1].impulse_node_id
    /\ Len(conversation_cache) = 2
    /\ conversation_cache[1].node_id = cycles[2].impulse_node_id

(***************************************************************************)
(* Context management when the tokenizer request fails                     *)
(***************************************************************************)
\* The tokenizer request raised requests.RequestException.
FailedAnswer == [ok |-> FALSE, tokens |-> 0]

\* The cycle c awaits the tokenizer while the cache, by its character count / 3,
\* and the impulse estimate exceed the safe limit.
AwaitsTokenizerOverBudget(c) ==
    /\ cycles[c].pc = "tokenizing"
    /\ CacheChars(conversation_cache) + len(cycles[c].impulse_text) > 3 * safe_limit

\* C19 as the code has it: when the tokenizer request fails, _manage_context
\* returns at once: no estimate of the cache is made, nothing is evicted and no
\* distillation is scheduled, however large the cache; the cycle is not aborted, it
\* goes on to record the impulse and to submit the instinct task.
C19_FailureSkipsCleanup ==
    \A c \in DOMAIN cycles :
        cycles[c].pc = "tokenizing" =>
            /\ manage_context(conversation_cache, cycles[c].impulse_text, FailedAnswer)
                   = [cache |-> conversation_cache, spawned |-> <<>>]
            /\ ENABLED (/\ TokenizerResponse(c, FailedAnswer)
                        /\ conversation_cache' = conversation_cache
                        /\ distills' = distills
                        /\ cycles'[c].pc = "instinct"
                        /\ CycleTaskId(c, 1) \in DOMAIN calls')

\* A cycle went on past _manage_context with nothing evicted and nothing handed to
\* distillation, although the cache holds a long text and exceeds the limit by its
\* character count.
C19_Witness ==
    \E c \in DOMAIN cycles :
        /\ cycles[c].pc = "instinct"
        /\ distills = <<>>
        /\ Len(conversation_cache) = 2 * MaxPriorPairs
        /\ conversation_cache[2].content = LongText
        /\ CacheChars(conversation_cache) + len(cycles[c].impulse_text) > 3 * safe_limit

\* C19 as stated: when the tokenizer request fails the cache size is estimated by
\* its character count / 3, and eviction takes place if that estimate plus the
\* impulse estimate exceeds the limit; the cycle is not aborted.
C19_FailureFallsBackToChars ==
    \A c \in DOMAIN cycles :
        cycles[c].pc = "tokenizing" =>
            /\ ENABLED (TokenizerResponse(c, FailedAnswer) /\ cycles'[c].pc = "instinct")
            /\ AwaitsTokenizerOverBudget(c) =>
                   ENABLED (/\ TokenizerResponse(c, FailedAnswer)
                            /\ Len(conversation_cache') < Len(conversation_cache)
                            /\ Len(distills') > Len(distills))

(***************************************************************************)
(* record_entry with a node type the schema does not list                  *)
(***************************************************************************)
\* The step at hand is a record_entry call with a node type that is not in the
\* schema.
RejectedCall ==
    /\ mem_call'.made
    /\ mem_call'.node_type \notin SchemaNodeTypes

\* C20: record_entry with a node_type that is not in the schema returns None and
\* leaves the three layers as they were: no node and no edge in the graph, no
\* vector in a collection, no entry in the chronicle, whatever content and links
\* the caller passed.
C20_UnknownTypeRejected ==
    [][RejectedCall =>
          /\ mem_call'.id = Null
          /\ memory'.nodes = memory.nodes
          /\ memory'.edges = memory.edges
          /\ memory'.order = memory.order
          /\ memory'.vectors = memory.vectors
          /\ memory'.chronicle = memory.chronicle]_vars

\* A call with an unknown type, a content that is not blank and a link to a node
\* of the graph returned None; the graph holds the node recorded before it.
C20_Witness ==
    /\ mem_call.made
    /\ mem_call.node_type = UnknownNodeType
    /\ mem_call.id = Null
    /\ ~IsBlank(mem_call.content)
    /\ mem_call.links # <<>>
    /\ has_node(memory, mem_call.links[1].target_id)
    /\ mem_call.nodes_before = memory.nodes

(***************************************************************************)
(* record_entry and the links it is given                                  *)
(***************************************************************************)
\* The edges the links of a call ask for whose target is a node of graph M.
EdgesToExisting(M, node_id, links) ==
    {[src |-> node_id, dst |-> links[i].target_id, label |-> links[i].label] :
        i \in {j \in DOMAIN links : has_node(M, links[j].target_id)}}

\* C21: record_entry with a valid node type creates the node and returns its id
\* whatever its links: a link whose target id is None or is not in the graph
\* writes no edge and creates no node for the target; every link whose target
\* exists yields the edge from the new node to the target with the link's label.
C21_LinksToExistingOnly ==
    [][(mem_call'.made /\ mem_call'.node_type \in SchemaNodeTypes) =>
          /\ mem_call'.id # Null
          /\ mem_call'.id \notin DOMAIN memory.nodes
          /\ DOMAIN memory'.nodes = DOMAIN memory.nodes \cup {mem_call'.id}
          /\ memory'.nodes[mem_call'.id].type = mem_call'.node_type
          /\ \A n \in DOMAIN memory.nodes : memory'.nodes[n] = memory.nodes[n]
          /\ memory'.edges =
                 memory.edges \cup EdgesToExisting(memory, mem_call'.id, mem_call'.links)]_vars

\* A node was recorded with a link to a node of the graph and a link to None: it
\* has the one edge, and the graph has no node besides the recorded ones.
C21_Witness ==
    /\ mem_call.made
    /\ mem_call.id # Null
    /\ Len(mem_call.links) = 2
    /\ [src |-> mem_call.id, dst |-> 1, label |-> "IS_RESPONSE_TO"] \in memory.edges
    /\ Cardinality({e \in memory.edges : e.src = mem_call.id}) = 1
    /\ DOMAIN memory.nodes = DOMAIN mem_call.nodes_before \cup {mem_call.id}

(***************************************************************************)
(* The temporal layer                                                      *)
(***************************************************************************)
\* C22: the temporal layer is append-only and tolerates duplicate timestamps:
\* after any sequence of record calls, two calls with the same timestamp among
\* them, every recorded node id is returned by a range query that covers its
\* timestamp.
C22_DuplicateTimestampsKept ==
    \A n \in DOMAIN memory.nodes :
        n \in query_by_range(memory.chronicle, memory.nodes[n].timestamp,
                             memory.nodes[n].timestamp)

(***************************************************************************)
(* Saving twice                                                            *)
(***************************************************************************)
\* CommandProcessor.execute, !save: close(), then the system message.
SaveCommand ==
    /\ \E closed \in {close(memory)} :
          /\ memory' = closed.memory
          /\ disk' = closed.disk
    /\ UNCHANGED <<routing, services, report_futures, future_result, calls, handlers,
                   received, redis_queue, mem_call, cycles, conversation_cache, distills,
                   client_out, graph_writers>>

\* The reflection cycles of ReflectSpec, with !save at any moment between their
\* steps.
SaveNext ==
    \/ ReflectNext
    \/ SaveCommand

SaveSpec == ReflectInit /\ [][SaveNext]_vars

\* C23: close() called twice in a row with nothing changed in between raises no
\* error, and the graph snapshot and the chronicle the second call writes equal
\* those the first call wrote.
C23_CloseTwice ==
    [][SaveCommand => /\ close(memory').disk = disk'
                      /\ close(memory').memory = memory']_vars

\* A snapshot was written after a reflection cycle reported, from a graph that held
\* attributes that were not strings.
C23_Witness ==
    /\ received # <<>>
    /\ disk.saved
    /\ disk = close(memory).disk
    /\ \E n \in DOMAIN memory.nodes :
          /\ "strength" \in DOMAIN memory.nodes[n].attrs
          /\ memory.nodes[n].attrs.strength.t = "str"

(***************************************************************************)
(* Concept nodes                                                           *)
(***************************************************************************)
\* The ConceptNodes get_or_create_concept_node may create per name before the
\* calls stop.
MaxConceptCreations == 2

\* The nodes get_or_create_concept_node created for the name.
CreatedConcepts(M, concept_name) ==
    {n \in DOMAIN M.nodes : /\ ConceptBase(concept_name) <= n
                            /\ n <= ConceptBase(concept_name) + 9
                            /\ M.nodes[n].type = "ConceptNode"
                            /\ M.nodes[n].content = concept_name}

\* A direct call of UniversalMemory.get_or_create_concept_node.
GetOrCreateConceptCall(concept_name) ==
    \E r \in {get_or_create_concept_node(
                  memory, NormalEnv(memory, ConceptBase(concept_name)), concept_name)} :
       /\ Cardinality(CreatedConcepts(memory, concept_name)) < MaxConceptCreations
       /\ memory' = r.memory
       /\ mem_call' = [made |-> TRUE, node_type |-> "ConceptNode", content |-> concept_name,
                       links |-> <<>>, timestamp |-> Null, id |-> r.id,
                       nodes_before |-> memory.nodes]
       /\ UNCHANGED <<framework_vars, cycle_vars, graph_writers>>

ConceptNext ==
    \/ MemNext
    \/ \E concept_name \in ConceptNames : GetOrCreateConceptCall(concept_name)

ConceptSpec == MemInit /\ [][ConceptNext]_vars

\* C24: get_or_create_concept_node is get-or-create by exact content match,
\* whatever other nodes share the content: after any sequence of record_entry and
\* get_or_create_concept_node calls at most one ConceptNode created by it exists
\* per content string.
C24_OneConceptPerContent ==
    \A concept_name \in ConceptNames :
        Cardinality(CreatedConcepts(memory, concept_name)) <= 1

(***************************************************************************)
(* MemoryRecallService: the mechanical ranking.  Semantic scores are in    *)
(* tenths (4 is 0.4), relevance scores in hundredths (6200 is 62.0), so    *)
(* that the factor 0.7 is exact.                                           *)
(***************************************************************************)
\* RECALL_RANKING_CONFIG["weights"]
semantic_similarity_multiplier == 15
conceptual_intersection_bonus == 10
associative_chain_bonus == 20
cross_validation_bonus == 40

\* `score *= 0.7` for a UserImpulse, in tenths.
UserImpulseFactor == 7

\* RECALL_RANKING_CONFIG["recall"]
recall_limit == 30
final_top_n == 5

\* The score with no factor for the node type.
relevance_score_no_type_factor(found_by, node_type) ==
    10 * (found_by.semantic * semantic_similarity_multiplier
          + found_by.conceptual * conceptual_intersection_bonus * 10
          + (IF found_by.associative THEN associative_chain_bonus * 10 ELSE 0)
          + (IF found_by.semantic > 0 /\ found_by.conceptual > 0
             THEN cross_validation_bonus * 10 ELSE 0))

\* The score of a candidate the semantic search found taken from the semantic
\* search alone.
relevance_score_semantic_first(found_by, node_type) ==
    (IF node_type = "UserImpulse" THEN UserImpulseFactor ELSE 10)
    * (IF found_by.semantic > 0
       THEN found_by.semantic * semantic_similarity_multiplier
       ELSE found_by.conceptual * conceptual_intersection_bonus * 10)

\* _rank_candidates, the body of the loop: the score of one candidate, in
\* hundredths.
relevance_score(found_by, node_type) ==
    CHOOSE score \in
        {IF node_type = "UserImpulse" THEN s4 * UserImpulseFactor ELSE s4 * 10 :
            s4 \in {s3 + (IF found_by.semantic > 0 /\ found_by.conceptual > 0
                          THEN cross_validation_bonus * 10 ELSE 0) :
            s3 \in {s2 + (IF found_by.associative THEN associative_chain_bonus * 10 ELSE 0) :
            s2 \in {s1 + found_by.conceptual * conceptual_intersection_bonus * 10 :
            s1 \in {found_by.semantic * semantic_similarity_multiplier}}}}} : TRUE

\* The list left in the order of the pool.
sort_skipped(list) == list

\* The place of one more candidate in a list sorted already: behind every
\* candidate whose score is not lower.
insert_by_relevance(front, candidate) ==
    CHOOSE sorted \in
        {SubSeq(front, 1, k) \o <<candidate>> \o SubSeq(front, k + 1, Len(front)) :
            k \in {Cardinality({i \in 1..Len(front) :
                      front[i].relevance_score >= candidate.relevance_score})}} : TRUE

\* ranked_list.sort(key=relevance_score, reverse=True): stable, so candidates of
\* equal score keep the order of the pool.
RECURSIVE sort_by_relevance(_)
sort_by_relevance(list) ==
    IF list = <<>> THEN <<>>
    ELSE insert_by_relevance(sort_by_relevance(SubSeq(list, 1, Len(list) - 1)),
                             list[Len(list)])

\* MemoryRecallService._rank_candidates.  The pool is the dict in insertion order.
rank_candidates(candidate_pool) ==
    sort_by_relevance(
        [i \in 1..Len(candidate_pool) |->
            [id |-> candidate_pool[i].id, type |-> candidate_pool[i].type,
             relevance_score |-> relevance_score(candidate_pool[i].found_by,
                                                 candidate_pool[i].type)]])

\* The candidates a pool is drawn from.
MaxPool == 2
MaxIntersections == 2
SemanticScores == {-3, 0, 4, 9}

FoundBy ==
    [semantic : SemanticScores, conceptual : 0..MaxIntersections, associative : BOOLEAN]

CandidatePools ==
    UNION {{[i \in 1..n |-> [id |-> i, type |-> c[i].type, found_by |-> c[i].found_by]] :
              c \in [1..n -> [type : {"FactNode", "UserImpulse"}, found_by : FoundBy]]} :
           n \in 1..MaxPool}

\* handle_task holds a candidate pool.
RankInit ==
    /\ memory = EmptyMemory
    /\ routing = RoutingTable(Services)
    /\ services = [s \in Services |-> start(NewService)]
    /\ report_futures = {}
    /\ future_result = <<>>
    /\ calls = <<>>
    /\ \E candidate_pool \in CandidatePools :
          handlers = 1 :> [pc |-> "pooled", candidate_pool |-> candidate_pool,
                           ranked |-> <<>>]
    /\ received = <<>>
    /\ redis_queue = <<>>
    /\ mem_call = NoCall
    /\ cycles = <<>>
    /\ conversation_cache = <<>>
    /\ distills = <<>>
    /\ client_out = <<>>
    /\ disk = NoFiles
    /\ graph_writers = [seen |-> {}, last |-> 0, interleaved |-> FALSE]

\* mechanically_ranked_candidates = self._rank_candidates(candidate_pool)
RankCandidates(task_id) ==
    /\ task_id \in DOMAIN handlers
    /\ handlers[task_id].pc = "pooled"
    /\ handlers' = [handlers EXCEPT ![task_id].pc = "ranked",
                                    ![task_id].ranked =
                                        rank_candidates(handlers[task_id].candidate_pool)]
    /\ UNCHANGED <<memory, routing, services, report_futures, future_result, calls,
                   received, redis_queue, mem_call, cycle_vars, graph_writers>>

RankNext == \E task_id \in DOMAIN handlers : RankCandidates(task_id)

RankSpec == RankInit /\ [][RankNext]_vars

\* The handlers that ranked their pool, and where a candidate stands in the
\* ranked list.
Ranked == {t \in DOMAIN handlers : handlers[t].pc = "ranked"}

PlaceOf(t, id) == CHOOSE j \in 1..Len(handlers[t].ranked) : handlers[t].ranked[j].id = id

ScoreOf(t, id) == handlers[t].ranked[PlaceOf(t, id)].relevance_score

\* C28: relevance_score = semantic_score * 15 + conceptual_count * 10
\* + (20 if associative) + (40 if semantic_score > 0 and conceptual_count > 0),
\* multiplied by 0.7 when the node type is UserImpulse; and the ranked list holds
\* every candidate of the pool once.
C28_ScoreFormula ==
    \A t \in Ranked :
       /\ Len(handlers[t].ranked) = Len(handlers[t].candidate_pool)
       /\ \A i \in 1..Len(handlers[t].candidate_pool) :
          \E c \in {handlers[t].candidate_pool[i]} :
             /\ \E j \in 1..Len(handlers[t].ranked) : handlers[t].ranked[j].id = c.id
             /\ 10 * ScoreOf(t, c.id) =
                   (c.found_by.semantic * 150 + c.found_by.conceptual * 1000
                    + (IF c.found_by.associative THEN 2000 ELSE 0)
                    + (IF c.found_by.semantic > 0 /\ c.found_by.conceptual > 0
                       THEN 4000 ELSE 0))
                   * (IF c.type = "UserImpulse" THEN 7 ELSE 10)

\* A ranked UserImpulse found by both methods and by association.
C28_Witness ==
    \E t \in Ranked : \E i \in 1..Len(handlers[t].candidate_pool) :
       /\ handlers[t].candidate_pool[i].type = "UserImpulse"
       /\ handlers[t].candidate_pool[i].found_by.semantic > 0
       /\ handlers[t].candidate_pool[i].found_by.conceptual > 0
       /\ handlers[t].candidate_pool[i].found_by.associative

\* Two candidates of a pool with the same conceptual count and associative flag,
\* the first with the higher semantic score.
HigherSemantic(t, i, j) ==
    /\ handlers[t].candidate_pool[i].found_by.conceptual
          = handlers[t].candidate_pool[j].found_by.conceptual
    /\ handlers[t].candidate_pool[i].found_by.associative
          = handlers[t].candidate_pool[j].found_by.associative
    /\ handlers[t].candidate_pool[i].found_by.semantic
          > handlers[t].candidate_pool[j].found_by.semantic

\* C29: of two candidates with identical conceptual count, associative flag and
\* node type, the one with the higher semantic score is ranked at or above the
\* other in the output of _rank_candidates.
C29_SemanticOrdersSameType ==
    \A t \in Ranked : \A i, j \in 1..Len(handlers[t].candidate_pool) :
       (/\ HigherSemantic(t, i, j)
        /\ handlers[t].candidate_pool[i].type = handlers[t].candidate_pool[j].type)
       => PlaceOf(t, handlers[t].candidate_pool[i].id)
             <= PlaceOf(t, handlers[t].candidate_pool[j].id)

\* The candidate with the higher semantic score came second in the pool and first
\* in the ranked list.
C29_Witness ==
    \E t \in Ranked :
       /\ Len(handlers[t].candidate_pool) >= 2
       /\ HigherSemantic(t, 2, 1)
       /\ handlers[t].candidate_pool[1].type = handlers[t].candidate_pool[2].type
       /\ handlers[t].ranked[1].id = handlers[t].candidate_pool[2].id

\* C29 as stated, whatever the node types: of two candidates with identical
\* conceptual count and associative flag, the one with the higher semantic score
\* is ranked at or above the other.
C29_SemanticOrders ==
    \A t \in Ranked : \A i, j \in 1..Len(handlers[t].candidate_pool) :
       HigherSemantic(t, i, j)
       => PlaceOf(t, handlers[t].candidate_pool[i].id)
             <= PlaceOf(t, handlers[t].candidate_pool[j].id)

\* Candidate i was found by both methods and candidate j, otherwise identical, by
\* one of them only.
BothAgainstOne(t, i, j) ==
    \E both \in {handlers[t].candidate_pool[i]}, one \in {handlers[t].candidate_pool[j]} :
       /\ both.found_by.semantic > 0
       /\ both.found_by.conceptual > 0
       /\ both.type = one.type
       /\ both.found_by.associative = one.found_by.associative
       /\ \/ one.found_by.semantic = both.found_by.semantic /\ one.found_by.conceptual = 0
          \/ one.found_by.conceptual = both.found_by.conceptual /\ one.found_by.semantic = 0

\* C30: a candidate found by both methods (positive semantic score and positive
\* conceptual count) scores strictly higher than an otherwise identical candidate
\* found by only one method.
C30_CrossValidationWins ==
    \A t \in Ranked : \A i, j \in 1..Len(handlers[t].candidate_pool) :
       BothAgainstOne(t, i, j)
       => ScoreOf(t, handlers[t].candidate_pool[i].id)
             > ScoreOf(t, handlers[t].candidate_pool[j].id)

\* A ranked pool whose second candidate was found by both methods and whose first
\* only by the semantic search, with the same score there.
C30_Witness ==
    \E t \in Ranked :
       /\ Len(handlers[t].candidate_pool) >= 2
       /\ BothAgainstOne(t, 2, 1)
       /\ handlers[t].candidate_pool[1].found_by.conceptual = 0
       /\ handlers[t].ranked[1].id = handlers[t].candidate_pool[2].id

(***************************************************************************)
(* MemoryRecallService: the hybrid search, on graphs that                  *)
(* FactIngestionService wrote                                              *)
(***************************************************************************)
ALLOWED_NODE_TYPES_FOR_RECALL ==
    {"FactNode", "KnowledgeCrystalNode", "FinalResponseNode", "UserImpulse"}

\* The ids of a set in ascending order (the model keeps no insertion order of edges
\* or of search results; no score depends on it).
RECURSIVE ascending(_)
ascending(ids) ==
    IF ids = {} THEN <<>> ELSE <<Min(ids)>> \o ascending(ids \ {Min(ids)})

\* _conceptual_capture, the body of the loop for one concept: the allow-listed
\* predecessors of the node get_node_by_attribute returns, when it is a ConceptNode.
concept_neighbors(M, concept_name) ==
    CHOOSE neighbors \in
        {IF concept_node # Null /\ M.nodes[concept_node].type = "ConceptNode"
         THEN {n \in predecessors(M, concept_node) :
                  M.nodes[n].type \in ALLOWED_NODE_TYPES_FOR_RECALL}
         ELSE {} :
            concept_node \in {get_node_by_content(M, concept_name)}} : TRUE

\* MemoryRecallService._conceptual_capture: node id -> intersections.
RECURSIVE conceptual_capture(_, _)
conceptual_capture(M, concepts) ==
    IF concepts = <<>> THEN <<>>
    ELSE CHOOSE candidate_intersections \in
             {[n \in DOMAIN before \cup neighbors |->
                  Get(before, n, 0) + (IF n \in neighbors THEN 1 ELSE 0)] :
                before \in {conceptual_capture(M, SubSeq(concepts, 1, Len(concepts) - 1))},
                neighbors \in {concept_neighbors(M, concepts[Len(concepts)])}} : TRUE

\* The hits one vector search may return.
MaxSemanticHits == 1

\* MemoryRecallService._semantic_capture: node id -> score.  Which stored vectors
\* the search returns, and with which scores, is the encoder's; the where filter
\* keeps the allow-listed types, and a failing search returns nothing.
semantic_capture(M, query) ==
    IF query = "" THEN {<<>>}
    ELSE UNION {[hits -> SemanticScores] :
                   hits \in {h \in SUBSET {v.id : v \in {x \in M.vectors :
                                               /\ x.collection \in {"experience", "insight"}
                                               /\ M.nodes[x.id].type
                                                     \in ALLOWED_NODE_TYPES_FOR_RECALL}} :
                                Cardinality(h) <= MaxSemanticHits}}

\* The pool in which a candidate of the conceptual search keeps the default
\* semantic score.
build_candidate_pool_keeps_default(M, semantic_dict, conceptual_dict) ==
    [i \in 1..Len(ascending(DOMAIN conceptual_dict)) |->
        [id |-> ascending(DOMAIN conceptual_dict)[i],
         type |-> M.nodes[ascending(DOMAIN conceptual_dict)[i]].type,
         found_by |-> [semantic |-> 0,
                       conceptual |-> conceptual_dict[ascending(DOMAIN conceptual_dict)[i]],
                       associative |-> FALSE]]]

\* MemoryRecallService._build_candidate_pool: the candidates of the conceptual
\* search first, then those only the semantic search found that are in the graph
\* with an allow-listed type.
build_candidate_pool(M, semantic_dict, conceptual_dict) ==
    CHOOSE pool \in
        {[i \in 1..Len(conceptual) |->
             [id |-> conceptual[i], type |-> M.nodes[conceptual[i]].type,
              found_by |-> [semantic |-> Get(semantic_dict, conceptual[i], 0),
                            conceptual |-> conceptual_dict[conceptual[i]],
                            associative |-> FALSE]]]
         \o [i \in 1..Len(semantic) |->
                [id |-> semantic[i], type |-> M.nodes[semantic[i]].type,
                 found_by |-> [semantic |-> semantic_dict[semantic[i]], conceptual |-> 0,
                               associative |-> FALSE]]] :
            conceptual \in {ascending(DOMAIN conceptual_dict)},
            semantic \in {ascending({n \in DOMAIN semantic_dict \ DOMAIN conceptual_dict :
                                       /\ has_node(M, n)
                                       /\ M.nodes[n].type \in ALLOWED_NODE_TYPES_FOR_RECALL})}} :
            TRUE

\* pool[node_id]["node_data"]["id"] = node_id: node_data is the attribute dict of
\* the graph's node, which gains the attribute.
with_id_attribute(M, candidate_pool) ==
    [M EXCEPT !.nodes =
        [n \in DOMAIN M.nodes |->
            IF \E i \in 1..Len(candidate_pool) : candidate_pool[i].id = n
            THEN [M.nodes[n] EXCEPT !.attrs = Put(@, "id", n)]
            ELSE M.nodes[n]]]

\* Every ranked candidate returned, none cut.
found_nodes_uncut(candidate_pool) == rank_candidates(candidate_pool)

\* handle_task from the pool on: rank, keep recall_limit, then final_top_n
\* candidates (the reranker is skipped).
found_nodes(candidate_pool) ==
    SubSeq(rank_candidates(candidate_pool), 1,
           Min({Len(candidate_pool), recall_limit, final_top_n}))

\* The facts a user states and the plans the planner makes of them.
MaxFacts == 2
FactTexts == {"coffee", "coffee from a press"}

FactPlans ==
    {[status |-> "SUCCESS",
      data |-> [queries |-> <<[semantic_query |-> "coffee", concepts |-> <<"coffee">>]>>]],
     [status |-> "SUCCESS",
      data |-> [queries |-> <<[semantic_query |-> "brewing",
                               concepts |-> <<"Coffee ", "press">>]>>]],
     [status |-> "FAILURE", data |-> [error |-> "boom"]]}

FactNodeBase == 400

\* FactIngestionService.handle_task after `await execute_single_task(plan_task)`:
\* the source command and the fact are recorded and linked, and the fact is linked
\* to the concepts of the plan.  (The Report the handler then returns travels as
\* every Report does, see ProcessTaskWrapper.)
fact_ingestion_resume(M, fact_text, plan_report) ==
    CHOOSE ingested \in
        {IF r.fact.id # Null /\ plan_report.status = "SUCCESS"
         THEN link_concepts(
                  IF r.parent_impulse_id # Null
                  THEN graph_add_edge(r.fact.memory, r.fact.id, r.parent_impulse_id,
                                      "SOURCED_FROM")
                  ELSE r.fact.memory,
                  r.fact.id, all_concepts(plan_report.data.queries))
         ELSE r.fact.memory :
            r \in {[parent_impulse_id |-> parent.id,
                    fact |-> record_entry(parent.memory,
                                          NormalEnv(parent.memory, FactNodeBase),
                                          "FactNode", fact_text,
                                          [verification_status |-> "VERIFIED"], <<>>)] :
                      parent \in {record_entry(M, NormalEnv(M, FactNodeBase), "UserImpulse",
                                               "!fact " \o fact_text, <<>>, <<>>)}}} : TRUE

FactIngestionResume(fact_text, plan_report) ==
    /\ Cardinality({n \in DOMAIN memory.nodes : memory.nodes[n].type = "FactNode"}) < MaxFacts
    /\ memory' = fact_ingestion_resume(memory, fact_text, plan_report)
    /\ UNCHANGED <<framework_vars, mem_call, cycle_vars, graph_writers>>

\* The queries and the concept lists of a recall_request (the planner's LLM spells
\* and repeats concepts as it likes).
MaxRecalls == 1
RecallQueries == {"", "brewing"}
RecallConcepts == {<<>>, <<"coffee">>, <<"coffee", "press">>, <<"coffee", "coffee">>}

\* Orchestrator.handle_user_impulse, stage 4: execute_single_task on a
\* recall_request, up to its await.
RecallSubmit(semantic_query, concepts) ==
    \E task_id \in {Cardinality(DOMAIN calls) + 1} :
    \E r \in {execute_single_task(
                  memory, services, report_futures,
                  Task("recall_request",
                       [request_payload |->
                           [semantic_query |-> semantic_query, concepts |-> concepts]],
                       task_id, NoLink))} :
       /\ task_id <= MaxRecalls
       /\ memory' = r.memory
       /\ services' = r.services
       /\ report_futures' = r.report_futures
       /\ calls' = Put(calls, task_id, r.frame)
       /\ UNCHANGED <<routing, future_result, handlers, received, redis_queue>>
       /\ UNCHANGED <<mem_call, cycle_vars, graph_writers>>

\* handle_task returns report data: the wrapper hands the Report to receive_report.
\* M is the graph the handler leaves.
RecallReturn(task_id, M, frame, data) ==
    \E r \in {receive_report(M, report_futures, future_result,
                             wrapper_report(frame.task, Succeeded(data, NoLink)))} :
       /\ memory' = r.memory
       /\ report_futures' = r.report_futures
       /\ future_result' = r.future_result
       /\ received' = [received EXCEPT ![task_id] = Append(@, r.report)]
       /\ handlers' = [handlers EXCEPT ![task_id] =
                          [frame EXCEPT !.pc = "done", !.result = "report"]]

\* The searches started whatever the request holds.
nothing_to_search_ignored(request_payload) == FALSE

\* `if not concepts and not semantic_query`
nothing_to_search(request_payload) ==
    request_payload.concepts = <<>> /\ request_payload.semantic_query = ""

\* MemoryRecallService.handle_task up to `await asyncio.gather`: with nothing to
\* search for it returns at once, otherwise the two searches are scheduled.
RecallHandle(task_id) ==
    /\ task_id \in DOMAIN handlers
    /\ handlers[task_id].pc = "running"
    /\ handlers[task_id].task.type = "recall_request"
    /\ \E frame \in {[service |-> handlers[task_id].service,
                      task |-> handlers[task_id].task,
                      pc |-> "gathering", result |-> "running",
                      semantic_candidates |-> <<>>, conceptual_candidates |-> <<>>,
                      candidate_pool |-> <<>>]} :
          IF nothing_to_search(frame.task.payload.request_payload)
          THEN RecallReturn(task_id, memory, frame, [found_nodes |-> <<>>])
          ELSE /\ handlers' = [handlers EXCEPT ![task_id] = frame]
               /\ UNCHANGED <<memory, report_futures, future_result, received>>
    /\ UNCHANGED <<routing, services, calls, redis_queue, mem_call, cycle_vars,
                   graph_writers>>

\* The two search tasks run one after the other, neither suspends.
RecallCapture(task_id) ==
    /\ task_id \in DOMAIN handlers
    /\ handlers[task_id].pc = "gathering"
    /\ \E semantic_candidates \in
           semantic_capture(memory,
                            handlers[task_id].task.payload.request_payload.semantic_query) :
          handlers' = [handlers EXCEPT
                          ![task_id].pc = "captured",
                          ![task_id].semantic_candidates = semantic_candidates,
                          ![task_id].conceptual_candidates =
                              conceptual_capture(
                                  memory,
                                  handlers[task_id].task.payload.request_payload.concepts)]
    /\ UNCHANGED <<memory, routing, services, report_futures, future_result, calls,
                   received, redis_queue, mem_call, cycle_vars, graph_writers>>

\* handle_task after the gather: the pool, the ranking, the report.
RecallRank(task_id) ==
    /\ task_id \in DOMAIN handlers
    /\ handlers[task_id].pc = "captured"
    /\ \E candidate_pool \in {build_candidate_pool(memory,
                                                   handlers[task_id].semantic_candidates,
                                                   handlers[task_id].conceptual_candidates)} :
          RecallReturn(task_id, with_id_attribute(memory, candidate_pool),
                       [handlers[task_id] EXCEPT !.candidate_pool = candidate_pool],
                       IF candidate_pool = <<>>
                       THEN [found_nodes |-> <<>>]
                       ELSE [found_nodes |-> found_nodes(candidate_pool),
                             source_node_ids |->
                                 [i \in 1..Len(found_nodes(candidate_pool)) |->
                                     found_nodes(candidate_pool)[i].id]])
    /\ UNCHANGED <<routing, services, calls, redis_queue, mem_call, cycle_vars,
                   graph_writers>>

RecallNext ==
    \/ \E fact_text \in FactTexts, plan_report \in FactPlans :
           FactIngestionResume(fact_text, plan_report)
    \/ \E semantic_query \in RecallQueries, concepts \in RecallConcepts :
           RecallSubmit(semantic_query, concepts)
    \/ WorkerDequeue("MemoryRecallService")
    \/ \E task_id \in DOMAIN handlers : RecallHandle(task_id)
    \/ \E task_id \in DOMAIN handlers : RecallCapture(task_id)
    \/ \E task_id \in DOMAIN handlers : RecallRank(task_id)
    \/ \E task_id \in DOMAIN calls : ExecuteSingleTaskReturn(task_id)

RecallSpec == Init /\ [][RecallNext]_vars

\* Node n is a predecessor of a ConceptNode whose content is the term.
ReachedThrough(M, term, n) ==
    \E k \in DOMAIN M.nodes :
       /\ M.nodes[k].type = "ConceptNode"
       /\ M.nodes[k].content = term
       /\ n \in predecessors(M, k)

\* The candidates the concept terms lead to, each with the number of different
\* terms that lead to it.
CandidatesOfTerms(M, concepts) ==
    [n \in {x \in DOMAIN M.nodes :
               /\ M.nodes[x].type \in ALLOWED_NODE_TYPES_FOR_RECALL
               /\ \E i \in 1..Len(concepts) : ReachedThrough(M, concepts[i], x)} |->
        Cardinality({concepts[i] : i \in {j \in 1..Len(concepts) :
                                             ReachedThrough(M, concepts[j], n)}})]

\* C25: for a recall with concept terms C, the conceptual candidates are exactly
\* the allow-listed predecessors of every ConceptNode whose content equals a term
\* of C, found whenever such a ConceptNode is in the graph, and the intersection
\* count of a candidate is the number of different terms of C through which it is
\* reached.
C25_ConceptualCandidates ==
    [][\A t \in DOMAIN handlers :
          (/\ handlers[t].pc = "gathering"
           /\ handlers'[t].pc = "captured")
          => handlers'[t].conceptual_candidates
                = CandidatesOfTerms(memory,
                                    handlers[t].task.payload.request_payload.concepts)]_vars

\* FactNode f has a CONTAINS_CONCEPT edge to a ConceptNode whose content is c.
FactContainsConcept(M, f, c) ==
    /\ M.nodes[f].type = "FactNode"
    /\ \E e \in M.edges :
          /\ e.src = f
          /\ e.label = "CONTAINS_CONCEPT"
          /\ M.nodes[e.dst].type = "ConceptNode"
          /\ M.nodes[e.dst].content = c

\* C26: in any reachable memory state where a FactNode has a CONTAINS_CONCEPT edge
\* to the ConceptNode whose content is c, a recall_request with concepts [c]
\* returns that FactNode in found_nodes, with a conceptual count of 1 or more in
\* its relevance_score.
C26_LinkedFactRecalled ==
    \A c \in ConceptNames : \A f \in DOMAIN memory.nodes :
       FactContainsConcept(memory, f, c)
       => \A semantic_query \in RecallQueries :
          \A semantic_candidates \in semantic_capture(memory, semantic_query) :
          \E found \in {found_nodes(build_candidate_pool(
                                        memory, semantic_candidates,
                                        conceptual_capture(memory, <<c>>)))} :
          \E j \in 1..Len(found) :
             /\ found[j].id = f
             /\ \E count \in 1..Len(found) :
                   found[j].relevance_score
                      = relevance_score([semantic |-> Get(semantic_candidates, f, 0),
                                         conceptual |-> count, associative |-> FALSE],
                                        "FactNode")

MaxLongPool == 6

\* Pools of FactNodes the two searches found or did not find.
LongPools ==
    UNION {{[i \in 1..n |-> [id |-> i, type |-> "FactNode", found_by |-> c[i]]] :
              c \in [1..n -> [semantic : {0, 4}, conceptual : {0, 1},
                              associative : {FALSE}]]} :
           n \in 1..MaxLongPool}

\* handle_task holds a candidate pool.
TopInit ==
    /\ memory = EmptyMemory
    /\ routing = RoutingTable(Services)
    /\ services = [s \in Services |-> start(NewService)]
    /\ report_futures = {}
    /\ future_result = <<>>
    /\ calls = <<>>
    /\ \E candidate_pool \in LongPools :
          handlers = 1 :> [pc |-> "pooled", candidate_pool |-> candidate_pool,
                           found_nodes |-> <<>>]
    /\ received = <<>>
    /\ redis_queue = <<>>
    /\ mem_call = NoCall
    /\ cycles = <<>>
    /\ conversation_cache = <<>>
    /\ distills = <<>>
    /\ client_out = <<>>
    /\ disk = NoFiles
    /\ graph_writers = [seen |-> {}, last |-> 0, interleaved |-> FALSE]

\* handle_task from the pool to report_data["found_nodes"].
SelectTopN(task_id) ==
    /\ task_id \in DOMAIN handlers
    /\ handlers[task_id].pc = "pooled"
    /\ handlers' = [handlers EXCEPT ![task_id].pc = "reported",
                                    ![task_id].found_nodes =
                                        found_nodes(handlers[task_id].candidate_pool)]
    /\ UNCHANGED <<memory, routing, services, report_futures, future_result, calls,
                   received, redis_queue, mem_call, cycle_vars, graph_writers>>

TopNext == \E task_id \in DOMAIN handlers : SelectTopN(task_id)

TopSpec == TopInit /\ [][TopNext]_vars

\* C31: the found_nodes of a recall report has at most final_top_n entries, each
\* with its relevance_score, in order of non-increasing relevance_score, and every
\* candidate of the pool left out scores no higher than every candidate returned.
C31_TopOfRanking ==
    \A t \in DOMAIN handlers :
       handlers[t].pc = "reported"
       => \E found \in {handlers[t].found_nodes}, pool \in {handlers[t].candidate_pool} :
             /\ Len(found) <= final_top_n
             /\ Len(found) = Min({Len(pool), final_top_n})
             /\ \A j \in 1..Len(found) :
                   \E i \in 1..Len(pool) :
                      /\ pool[i].id = found[j].id
                      /\ found[j].relevance_score
                            = relevance_score(pool[i].found_by, pool[i].type)
             /\ \A j, k \in 1..Len(found) : j # k => found[j].id # found[k].id
             /\ \A j \in 1..(Len(found) - 1) :
                   found[j].relevance_score >= found[j + 1].relevance_score
             /\ \A i \in 1..Len(pool) :
                   (\A j \in 1..Len(found) : found[j].id # pool[i].id)
                   => \A j \in 1..Len(found) :
                         relevance_score(pool[i].found_by, pool[i].type)
                            <= found[j].relevance_score

\* A report of five candidates of a pool of more, the best of which stood last
\* in the pool.
C31_Witness ==
    \E t \in DOMAIN handlers :
       /\ handlers[t].pc = "reported"
       /\ Len(handlers[t].candidate_pool) > final_top_n
       /\ Len(handlers[t].found_nodes) = final_top_n
       /\ handlers[t].found_nodes[1].id = Len(handlers[t].candidate_pool)
       /\ handlers[t].found_nodes[1].relevance_score
             > handlers[t].found_nodes[final_top_n].relevance_score

(***************************************************************************)
(* MemoryRecallService: the request with nothing to search for             *)
(***************************************************************************)
\* The recall handlers whose request has no query text and no concepts.
EmptyRecalls ==
    {t \in DOMAIN handlers :
        /\ handlers[t].task.type = "recall_request"
        /\ handlers[t].task.payload.request_payload.concepts = <<>>
        /\ handlers[t].task.payload.request_payload.semantic_query = ""}

\* C32: a recall_request whose query text and concept list are both empty returns
\* a SUCCESS report with an empty found_nodes list at once, without starting the
\* semantic search or the conceptual search.
C32_EmptyRequestReturnsAtOnce ==
    \A t \in EmptyRecalls :
       /\ handlers[t].pc \in {"running", "done"}
       /\ handlers[t].pc = "done"
          => /\ Len(received[t]) = 1
             /\ received[t][1].status = "SUCCESS"
             /\ received[t][1].data = [found_nodes |-> <<>>]
             /\ handlers[t].semantic_candidates = <<>>
             /\ handlers[t].conceptual_candidates = <<>>

\* An empty request was answered while the graph held a fact the searches would
\* have found.
C32_Witness ==
    \E t \in EmptyRecalls :
       /\ handlers[t].pc = "done"
       /\ received[t] # <<>>
       /\ \E n \in DOMAIN memory.nodes : memory.nodes[n].type = "FactNode"

(***************************************************************************)
(* CrystallizerService.handle_task on the graph a finished cycle left      *)
(***************************************************************************)
\* The graph after a cycle on the impulse text: the UserImpulse, the ConceptNodes
\* of stage 4 linked to it, and the FinalResponseNode of the closure when the
\* cycle got that far.
dialogue_memory(impulse_text, names, answered) ==
    CHOOSE M \in
        {IF answered
         THEN record_entry(linked, NormalEnv(linked, CycleNodeBase(1, 3)),
                           "FinalResponseNode", "final answer", <<>>,
                           <<LinkDirective(CycleNodeBase(1, 0), "IS_RESPONSE_TO"),
                             LinkDirective(Null, "WAS_SYNTHESIZED_FROM")>>).memory
         ELSE linked :
            linked \in {link_concepts(
                            record_entry(EmptyMemory,
                                         NormalEnv(EmptyMemory, CycleNodeBase(1, 0)),
                                         "UserImpulse", impulse_text, <<>>, <<>>).memory,
                            CycleNodeBase(1, 0), names)}} : TRUE

\* What _extract_key_pairs returns: the pairs the LLM named, each sorted, none
\* twice.
KeyPairAnswers ==
    {<<>>, <<<<"coffee", "press">>>>, <<<<"press", "press">>>>,
     <<<<"coffee", "press">>, <<"coffee", "coffee">>>>}

\* The job of the impulse of the cycle, or of an impulse the graph does not hold.
CrystalJobs == {CycleNodeBase(1, 0), CycleNodeBase(2, 0)}

CrystalInit ==
    /\ \E impulse_text \in {"hello", "coffee"}, names \in SUBSET ConceptNames,
          answered \in BOOLEAN :
          memory = dialogue_memory(impulse_text, names, answered)
    /\ routing = RoutingTable(Services)
    /\ services = [s \in Services |-> start(NewService)]
    /\ report_futures = {}
    /\ future_result = <<>>
    /\ calls = <<>>
    /\ handlers = <<>>
    /\ received = <<>>
    /\ \E impulse_id \in CrystalJobs : redis_queue = lpush(<<>>, impulse_id)
    /\ mem_call = NoCall
    /\ cycles = <<>>
    /\ conversation_cache = <<>>
    /\ distills = <<>>
    /\ client_out = <<>>
    /\ disk = NoFiles
    /\ graph_writers = [seen |-> {}, last |-> 0, interleaved |-> FALSE]

\* handle_task ends with `result`: the wrapper hands its Report to receive_report.
CrystalReturn(task_id, M, frame, result) ==
    \E r \in {receive_report(M, report_futures, future_result,
                             wrapper_report(frame.task, result))} :
       /\ memory' = r.memory
       /\ report_futures' = r.report_futures
       /\ future_result' = r.future_result
       /\ received' = [received EXCEPT ![task_id] = Append(@, r.report)]
       /\ handlers' = [handlers EXCEPT ![task_id] =
                          [frame EXCEPT !.pc = "done", !.result = result.kind]]

\* The FinalResponseNodes with an IS_RESPONSE_TO edge to the impulse.
final_responses(M, impulse_id) ==
    {e.src : e \in {x \in M.edges : /\ x.dst = impulse_id
                                    /\ x.label = "IS_RESPONSE_TO"
                                    /\ M.nodes[x.src].type = "FinalResponseNode"}}

\* The contents of the ConceptNodes the impulse points at.
impulse_concepts(M, impulse_id) ==
    {M.nodes[n].content : n \in {x \in successors(M, impulse_id) :
                                    M.nodes[x].type = "ConceptNode"}}

\* CrystallizerService.handle_task up to `await self._extract_key_pairs`.
CrystallizeStart(task_id) ==
    /\ task_id \in DOMAIN handlers
    /\ handlers[task_id].pc = "running"
    /\ handlers[task_id].task.type = "crystallize_dialogue"
    /\ \E frame \in {[service |-> handlers[task_id].service,
                      task |-> handlers[task_id].task,
                      pc |-> "extracting", result |-> "running",
                      key_pairs |-> <<>>, generated_crystals |-> <<>>]} :
       \E impulse_id \in {frame.task.payload.impulse_id} :
          IF impulse_id = Null \/ ~has_node(memory, impulse_id)
          THEN CrystalReturn(task_id, memory, frame,
                   [kind |-> "report", status |-> "FAILURE",
                    data |-> [error |-> "impulse_id not found or node does not exist"],
                    link_to |-> NoLink])
          ELSE IF final_responses(memory, impulse_id) = {}
          THEN CrystalReturn(task_id, memory, frame,
                   Succeeded([message |-> "No corresponding FinalResponseNode found for the impulse."],
                             NoLink))
          ELSE IF Cardinality(impulse_concepts(memory, impulse_id)) < 2
          THEN CrystalReturn(task_id, memory, frame,
                   Succeeded([message |-> "Not enough concepts to form a connection (minimum 2 required)."],
                             NoLink))
          ELSE /\ handlers' = [handlers EXCEPT ![task_id] = frame]
               /\ UNCHANGED <<memory, report_futures, future_result, received>>
    /\ UNCHANGED <<routing, services, calls, redis_queue, mem_call, cycle_vars,
                   graph_writers>>

\* _extract_key_pairs answered: with no pair the handler returns, otherwise it asks
\* for the insight of the first pair.
CrystallizeExtracted(task_id, key_pairs) ==
    /\ task_id \in DOMAIN handlers
    /\ handlers[task_id].pc = "extracting"
    /\ \E frame \in {[handlers[task_id] EXCEPT !.pc = "summarizing",
                                               !.key_pairs = key_pairs]} :
          IF key_pairs = <<>>
          THEN CrystalReturn(task_id, memory, frame,
                   Succeeded([message |-> "Failed to generate any new insights from the dialogue."],
                             NoLink))
          ELSE /\ handlers' = [handlers EXCEPT ![task_id] = frame]
               /\ UNCHANGED <<memory, report_futures, future_result, received>>
    /\ UNCHANGED <<routing, services, calls, redis_queue, mem_call, cycle_vars,
                   graph_writers>>

\* The body of the loop after `await self._summarize_connection`: the crystal of
\* the pair is recorded and linked to the ConceptNode of each name of the pair.
record_crystal(M, impulse_id, pair, insight_content) ==
    CHOOSE written \in
        {[memory |-> IF rec.id = Null THEN rec.memory
                     ELSE link_insight(rec.memory, rec.id, pair),
          crystal_id |-> rec.id] :
            rec \in {record_entry(M, NormalEnv(M, CrystalBase), "KnowledgeCrystalNode",
                                  insight_content,
                                  [source_concepts |-> sorted_pair(pair),
                                   source_impulse |-> impulse_id,
                                   active_status |-> IntAttr(1),
                                   strength |-> IntAttr(1)],
                                  <<>>)}} : TRUE

\* _summarize_connection answered for the pair at hand: the crystal, then the
\* request for the next pair or the return.
CrystallizePair(task_id, insight_content) ==
    /\ task_id \in DOMAIN handlers
    /\ handlers[task_id].pc = "summarizing"
    /\ \E pair \in {handlers[task_id].key_pairs[Len(handlers[task_id].generated_crystals) + 1]} :
       \E written \in {record_crystal(memory, handlers[task_id].task.payload.impulse_id,
                                      pair, insight_content)} :
       \E frame \in {[handlers[task_id] EXCEPT
                         !.generated_crystals =
                             Append(@, [pair |-> pair, crystal_id |-> written.crystal_id])]} :
          IF Len(frame.generated_crystals) = Len(frame.key_pairs)
          THEN CrystalReturn(task_id, written.memory, frame,
                   Succeeded([generated_crystals |-> frame.generated_crystals], NoLink))
          ELSE /\ memory' = written.memory
               /\ handlers' = [handlers EXCEPT ![task_id] = frame]
               /\ UNCHANGED <<report_futures, future_result, received>>
    /\ UNCHANGED <<routing, services, calls, redis_queue, mem_call, cycle_vars,
                   graph_writers>>

CrystalNext ==
    \/ CrystallizerWorker
    \/ \E task_id \in DOMAIN handlers : CrystallizeStart(task_id)
    \/ \E task_id \in DOMAIN handlers, key_pairs \in KeyPairAnswers :
           CrystallizeExtracted(task_id, key_pairs)
    \/ \E task_id \in DOMAIN handlers, insight_content \in VerifiedInsights :
           CrystallizePair(task_id, insight_content)

CrystalSpec == CrystalInit /\ [][CrystalNext]_vars

CrystalNodes(M) == {n \in DOMAIN M.nodes : M.nodes[n].type = "KnowledgeCrystalNode"}

ConceptNodesOf(M, concept_name) ==
    {n \in DOMAIN M.nodes : /\ M.nodes[n].type = "ConceptNode"
                            /\ M.nodes[n].content = concept_name}

\* The crystallization jobs that returned, for an impulse the graph holds.
ReturnedJobs ==
    {t \in DOMAIN handlers : /\ handlers[t].task.type = "crystallize_dialogue"
                             /\ handlers[t].pc = "done"
                             /\ has_node(memory, handlers[t].task.payload.impulse_id)}

\* The crystal of the pair is one node, active with strength 1, and it has an edge
\* to the ConceptNode of each name of the pair.
CrystalOfPair(M, pair) ==
    /\ Cardinality({n \in CrystalNodes(M) :
                       M.nodes[n].attrs.source_concepts = sorted_pair(pair)}) = 1
    /\ \A n \in CrystalNodes(M) :
          M.nodes[n].attrs.source_concepts = sorted_pair(pair) =>
             /\ M.nodes[n].attrs.active_status = IntAttr(1)
             /\ M.nodes[n].attrs.strength = IntAttr(1)
             /\ \A k \in 1..Len(pair) :
                   /\ Cardinality(ConceptNodesOf(M, pair[k])) = 1
                   /\ \A concept_id \in ConceptNodesOf(M, pair[k]) :
                         [src |-> n, dst |-> concept_id,
                          label |-> "INSIGHT_FROM_CONCEPT"] \in M.edges

\* C33: a crystallization job for an impulse with fewer than two linked
\* ConceptNodes returns SUCCESS and creates no KnowledgeCrystalNode; otherwise
\* every selected pair has exactly one KnowledgeCrystalNode, with active_status 1
\* and strength 1, that has an INSIGHT_FROM_CONCEPT edge to the ConceptNode of
\* each of the two concepts of the pair.
C33_CrystalPerPair ==
    \A t \in ReturnedJobs :
       IF Cardinality(impulse_concepts(memory, handlers[t].task.payload.impulse_id)) < 2
       THEN /\ \A k \in 1..Len(received[t]) : received[t][k].status = "SUCCESS"
            /\ received[t] # <<>>
            /\ CrystalNodes(memory) = {}
       ELSE \A k \in 1..Len(handlers[t].key_pairs) :
               CrystalOfPair(memory, handlers[t].key_pairs[k])

(***************************************************************************)
(* The closure of a cycle (orchestrator.py 442-483)                        *)
(***************************************************************************)
\* The jobs on the queue that carry the impulse id.
JobsOf(impulse_id) ==
    {k \in 1..Len(redis_queue) : redis_queue[k].impulse_id = impulse_id}

\* The step that records the FinalResponseNode of cycle c.
RecordsFinalResponse(c) ==
    /\ c \in DOMAIN cycles
    /\ cycles[c].pc = "synthesis"
    /\ cycles'[c].pc = "lpush"

\* The step in which handle_user_impulse of cycle c returns the impulse id.
Completes(c) ==
    /\ c \in DOMAIN cycles
    /\ cycles[c].pc = "lpush"
    /\ cycles'[c].pc = "done"

\* First the FinalResponseNode and the two cache entries, nothing sent, queued or
\* saved yet.
FirstNodeAndCache(c) ==
    RecordsFinalResponse(c) =>
        /\ cycles'[c].final_response_node_id
               \in final_responses(memory', cycles[c].impulse_node_id)
        /\ conversation_cache' =
               conversation_cache \o
                   <<Turn("user", cycles[c].impulse_text, cycles[c].impulse_node_id),
                     Turn("assistant", cycles'[c].final_response_text,
                          cycles'[c].final_response_node_id)>>
        /\ UNCHANGED <<redis_queue, client_out, disk>>

\* Then the send and the save, on a graph that holds the FinalResponseNode, with
\* the cache left alone.
ThenSendAndSave(c) ==
    Completes(c) =>
        /\ cycles[c].final_response_node_id
               \in final_responses(memory, cycles[c].impulse_node_id)
        /\ client_out'[c] = <<[msg_type |-> "RESPONSE",
                               message |-> cycles[c].final_response_text]>>
        /\ disk' = close(memory).disk
        /\ UNCHANGED conversation_cache

\* Every queued job is of an impulse whose FinalResponseNode is in the graph.
JobsHaveResponse ==
    \A k \in 1..Len(redis_queue) :
       final_responses(memory, redis_queue[k].impulse_id) # {}

\* C34 (as the code has it): the closure of a completing cycle records the
\* FinalResponseNode and appends the user entry, then the assistant entry, before
\* anything is queued, sent or saved; then it enqueues at most one job with the
\* impulse id -- exactly one when the Redis push succeeds, none when it fails or
\* no Redis client is connected -- sends the final text to the client and
\* persists the memory; every queued job finds its FinalResponseNode in the
\* graph.
C34_ClosureOrderOnePushAtMost ==
    /\ []JobsHaveResponse
    /\ [][\A c \in 1..MaxCycles :
             /\ FirstNodeAndCache(c)
             /\ ThenSendAndSave(c)
             /\ Completes(c) =>
                   redis_queue' =
                       IF cycles'[c].pushed
                       THEN <<[impulse_id |-> cycles[c].impulse_node_id]>> \o redis_queue
                       ELSE redis_queue]_vars

\* A cycle completed after a successful push, and its FinalResponseNode is on disk.
C34_Witness ==
    \E c \in DOMAIN cycles :
       /\ cycles[c].pc = "done"
       /\ cycles[c].pushed
       /\ Cardinality(JobsOf(cycles[c].impulse_node_id)) = 1
       /\ c \in DOMAIN client_out
       /\ disk # NoFiles

\* C34: a cycle that completes performs its closure in this order before
\* handle_user_impulse returns: FinalResponseNode recorded, user entry then
\* assistant entry appended to the cache, exactly one crystallization job with the
\* impulse id enqueued (the FinalResponseNode exists when the job is dequeued),
\* final text sent to the client, memory persisted.
C34_ClosureOrderExactlyOneJob ==
    /\ []JobsHaveResponse
    /\ [][\A c \in 1..MaxCycles :
             /\ FirstNodeAndCache(c)
             /\ ThenSendAndSave(c)
             /\ Completes(c) =>
                   redis_queue' =
                       <<[impulse_id |-> cycles[c].impulse_node_id]>> \o redis_queue]_vars

(***************************************************************************)
(* register_service and the routing of submit_task                         *)
(***************************************************************************)
\* Number of register_service calls, and of submit_task calls between them.
MaxRegistrations == 4
MaxSubmits == 2

\* The classes whose instances are registered here; an instance registered again
\* is another object of the same class.
RegistrableServices == {"SynthesisService", "MemoryRecallService", "SimpleExecutorService"}

\* The service objects, in the order in which they are registered.
ServiceObjects == <<"service 1", "service 2", "service 3", "service 4", "service 5">>

Registered(svcs) == Cardinality(DOMAIN svcs)

\* register_service that leaves an existing mapping alone.
register_service_keeps_first(table, svcs, service_name) ==
    CHOOSE r \in
        {[services |-> Put(svcs, object, [service_name |-> service_name] @@ NewService),
          routing |-> [t \in DOMAIN table |->
                          IF t \in get_supported_tasks(service_name) /\ table[t] = "None"
                          THEN object ELSE table[t]]] :
            object \in {ServiceObjects[Registered(svcs) + 1]}} : TRUE

\* Orchestrator.register_service: every task type the new service object declares
\* is mapped to it.
register_service(table, svcs, service_name) ==
    CHOOSE r \in
        {[services |-> Put(svcs, object, [service_name |-> service_name] @@ NewService),
          routing |-> [t \in DOMAIN table |->
                          IF t \in get_supported_tasks(service_name)
                          THEN object ELSE table[t]]] :
            object \in {ServiceObjects[Registered(svcs) + 1]}} : TRUE

RegisterInit ==
    /\ memory = EmptyMemory
    /\ routing = RoutingTable({})
    /\ services = <<>>
    /\ report_futures = {}
    /\ future_result = <<>>
    /\ calls = <<>>
    /\ handlers = <<>>
    /\ received = <<>>
    /\ redis_queue = <<>>
    /\ mem_call = NoCall
    /\ cycles = <<>>
    /\ conversation_cache = <<>>
    /\ distills = <<>>
    /\ client_out = <<>>
    /\ disk = NoFiles
    /\ graph_writers = [seen |-> {}, last |-> 0, interleaved |-> FALSE]

RegisterService(service_name) ==
    /\ Registered(services) < MaxRegistrations
    /\ \E r \in {register_service(routing, services, service_name)} :
          /\ routing' = r.routing
          /\ services' = r.services
    /\ UNCHANGED <<memory, report_futures, future_result, calls, handlers, received,
                   redis_queue, mem_call, cycle_vars, graph_writers>>

\* submit_task of a task of the type, with the next task id.
SubmitTask(task_type) ==
    /\ Len(calls) < MaxSubmits
    /\ \E task \in {Task(task_type, <<>>, Len(calls) + 1, NoLink)} :
       \E r \in {submit_task(services, report_futures, task)} :
          /\ services' = r.services
          /\ report_futures' = r.report_futures
          /\ calls' = Append(calls, [task |-> task, future |-> r.future])
    /\ UNCHANGED <<memory, routing, future_result, handlers, received, redis_queue,
                   mem_call, cycle_vars, graph_writers>>

RegisterNext ==
    \/ \E service_name \in RegistrableServices : RegisterService(service_name)
    \/ \E task_type \in TaskTypes : SubmitTask(task_type)

RegisterSpec == RegisterInit /\ [][RegisterNext]_vars

\* The registration numbers of the registered services that declare the type.
Declaring(svcs, task_type) ==
    {k \in 1..Registered(svcs) :
        task_type \in get_supported_tasks(svcs[ServiceObjects[k]].service_name)}

\* The service object registered last among those that declare the type.
Latest(svcs, task_type) ==
    ServiceObjects[CHOOSE k \in Declaring(svcs, task_type) :
                      \A j \in Declaring(svcs, task_type) : j <= k]

\* C35: after any sequence of register_service calls every task type routes to
\* the most recently registered service that declares it (to none when no
\* registered service declares it); a later registration replaces the earlier
\* mapping, and a task submitted afterwards is pushed to the later service only.
C35_LatestRegistrationRoutes ==
    /\ [](\A t \in TaskTypes :
             routing[t] = IF Declaring(services, t) = {} THEN "None"
                          ELSE Latest(services, t))
    /\ [][Len(calls') > Len(calls) =>
             \E task \in {calls'[Len(calls')].task} :
                \A object \in DOMAIN services :
                   services'[object].task_queue =
                       IF Declaring(services, task.type) # {}
                          /\ object = Latest(services, task.type)
                       THEN Append(services[object].task_queue, task)
                       ELSE services[object].task_queue]_vars

\* A type was declared by two registered services and a task of the type waits in
\* the queue of the later one.
C35_Witness ==
    \E t \in TaskTypes :
       /\ Cardinality(Declaring(services, t)) >= 2
       /\ \E i \in 1..Len(services[Latest(services, t)].task_queue) :
             services[Latest(services, t)].task_queue[i].type = t

(***************************************************************************)
(* The pending-Report map                                                  *)
(***************************************************************************)
\* The tasks submit_task pushed to a service whose Report receive_report has not
\* been called with.
AwaitingReport ==
    {task_id \in DOMAIN calls : Pushed(task_id) /\ Delivered(task_id) = {}}

\* C36: in every reachable state the pending-Report map holds a handle for exactly
\* the task_ids that were pushed to a service and whose Report has not been
\* received; receive_report removes the entry it resolves, no handle is fulfilled
\* twice, and the map is empty once every submitted task has been reported, under
\* any interleaving of submit_task and receive_report.
C36_PendingMapExact ==
    /\ [](report_futures = AwaitingReport)
    /\ []((\A task_id \in DOMAIN calls : Delivered(task_id) # {}) => report_futures = {})
    /\ [][\A task_id \in DOMAIN future_result :
             /\ task_id \in DOMAIN future_result'
             /\ future_result'[task_id] = future_result[task_id]]_vars
    /\ [][\A task_id \in report_futures \ report_futures' :
             /\ Delivered(task_id)' # {}
             /\ task_id \in DOMAIN future_result' \ DOMAIN future_result]_vars

\* One pushed task is still awaited while the Report of another was received and
\* its entry removed.
C36_Witness ==
    \E a, b \in DOMAIN calls :
       /\ Pushed(a) /\ Pushed(b)
       /\ Delivered(a) # {} /\ a \notin report_futures /\ a \in DOMAIN future_result
       /\ Delivered(b) = {} /\ b \in report_futures

(***************************************************************************)
(* Handlers of a stopped service                                           *)
(***************************************************************************)
\* stop() has returned for the service and start() was not called since.
Stopped(service) ==
    /\ services[service].tasks # <<>>
    /\ ~services[service].is_running
    /\ ~services[service].stopping

\* C37: once stop() has returned for a service no task handler of that service is
\* still running: no wrapper of the service is in handle_task, and none hands a
\* Report to receive_report (which records a ReportNode) afterwards.
C37_NoHandlerAfterStop ==
    /\ [](\A task_id \in DOMAIN handlers :
             handlers[task_id].pc = "running" => ~Stopped(handlers[task_id].service))
    /\ [][\A task_id \in DOMAIN handlers :
             received'[task_id] # received[task_id] =>
                 ~Stopped(handlers[task_id].service)]_vars

(***************************************************************************)
(* Edges added with graph.add_edge directly                                *)
(***************************************************************************)
\* The node was written by record_entry: it carries type, content and timestamp.
RecordedNode(M, node_id) ==
    /\ node_id # Null
    /\ node_id \in DOMAIN M.nodes
    /\ M.nodes[node_id].type # "None"
    /\ M.nodes[node_id].timestamp # Null
    /\ M.nodes[node_id] # BareNode

\* The edges record_entry did not write from links: IS_RESULT_OF of
\* execute_single_task, CONTAINS_CONCEPT of stage 4 and of the distillation,
\* ARCHIVES_IMPULSE and ARCHIVES_RESPONSE, INSIGHT_FROM_CONCEPT, SOURCED_FROM.
DirectEdges(M) ==
    {e \in M.edges : e.label \in {"IS_RESULT_OF", "CONTAINS_CONCEPT", "ARCHIVES_IMPULSE",
                                  "ARCHIVES_RESPONSE", "INSIGHT_FROM_CONCEPT",
                                  "SOURCED_FROM"}}

\* C38: in every reachable state every edge of the graph joins two nodes created by
\* record_entry, each with type, content and timestamp: no add_edge issued directly
\* by the Orchestrator or a service creates an attribute-less node or points at a
\* null id.
C38_EdgesJoinRecordedNodes ==
    \A e \in memory.edges : RecordedNode(memory, e.src) /\ RecordedNode(memory, e.dst)

\* The Orchestrator drew an IS_RESULT_OF edge, a CONTAINS_CONCEPT edge of stage 4
\* and the two edges of a distillation.
C38_Witness ==
    \A label \in {"IS_RESULT_OF", "CONTAINS_CONCEPT", "ARCHIVES_IMPULSE",
                  "ARCHIVES_RESPONSE"} :
       \E e \in DirectEdges(memory) : e.label = label

(***************************************************************************)
(* A handler that dispatches a task of its own: `!fact`                    *)
(* (command_processor.py 108-123, fact_ingestion_service.py 40-113)        *)
(***************************************************************************)
\* Number of `!fact` commands.
MaxIngests == 2

NestedServices == {"FactIngestionService", "EnrichmentPlannerService"}

\* The task id of the plan task the handler of an ingest_fact task dispatches.
NestedTaskId(task_id) == 5 + task_id

\* A worker loop that awaits the wrapper of a task before it takes the next one.
worker_at_get_after_handler(H, service) ==
    \A t \in DOMAIN H : H[t].service = service => H[t].pc = "done"

\* CognitiveService._worker hands the task to asyncio.create_task and is back at
\* `await self._task_queue.get()` whatever the wrappers it spawned are doing.
worker_at_get(H, service) == TRUE

\* Every service registered and started; the plan task is routed to the planner or,
\* for a service that declares both types, to the service of the dispatching
\* handler.
NestedInit ==
    /\ memory = EmptyMemory
    /\ \E planner \in NestedServices :
          routing = [t \in {"ingest_fact", "create_enrichment_plan"} |->
                        IF t = "ingest_fact" THEN "FactIngestionService" ELSE planner]
    /\ services = [s \in NestedServices |-> start(NewService)]
    /\ report_futures = {}
    /\ future_result = <<>>
    /\ calls = <<>>
    /\ handlers = <<>>
    /\ received = <<>>
    /\ redis_queue = <<>>
    /\ mem_call = NoCall
    /\ cycles = <<>>
    /\ conversation_cache = <<>>
    /\ distills = <<>>
    /\ client_out = <<>>
    /\ disk = NoFiles
    /\ graph_writers = [seen |-> {}, last |-> 0, interleaved |-> FALSE]

\* CommandProcessor, `!fact <text>`: execute_single_task(ingest_fact) up to its
\* await.
IngestFact(fact_text) ==
    \E task_id \in {Cardinality(DOMAIN calls \cap 1..MaxIngests) + 1} :
    \E r \in {execute_single_task(memory, services, report_futures,
                                  Task("ingest_fact", [fact_text |-> fact_text],
                                       task_id, NoLink))} :
       /\ task_id <= MaxIngests
       /\ memory' = r.memory
       /\ services' = r.services
       /\ report_futures' = r.report_futures
       /\ calls' = Put(calls, task_id, r.frame)
       /\ UNCHANGED <<routing, future_result, handlers, received, redis_queue,
                      mem_call, cycle_vars, graph_writers>>

NestedWorkerDequeue(service) ==
    /\ worker_at_get(handlers, service)
    /\ WorkerDequeue(service)

\* FactIngestionService.handle_task up to `await execute_single_task(plan_task)`.
FactIngestionStart(task_id) ==
    /\ task_id \in DOMAIN handlers
    /\ handlers[task_id].pc = "running"
    /\ handlers[task_id].task.type = "ingest_fact"
    /\ \E fact_text \in {handlers[task_id].task.payload.fact_text} :
       \E r \in {execute_single_task(
                     memory, services, report_futures,
                     Task("create_enrichment_plan",
                          [original_impulse |-> fact_text, instinctive_response |-> ""],
                          NestedTaskId(task_id), NoLink))} :
          /\ memory' = r.memory
          /\ services' = r.services
          /\ report_futures' = r.report_futures
          /\ calls' = Put(calls, NestedTaskId(task_id), r.frame)
          /\ handlers' = [handlers EXCEPT ![task_id].pc = "awaiting plan"]
    /\ UNCHANGED <<routing, future_result, received, redis_queue, mem_call, cycle_vars,
                   graph_writers>>

\* The wrapper of a plan task: handle_task of the planner ends, the Report goes to
\* receive_report.
PlanHandled(task_id, result) ==
    /\ task_id \in DOMAIN handlers
    /\ handlers[task_id].task.type = "create_enrichment_plan"
    /\ ProcessTaskWrapper(task_id, result)

\* The future of the plan task is done: execute_single_task returns the Report to
\* the handler, which records and links the fact and returns its own Report to the
\* wrapper.
FactIngestionReturn(task_id) ==
    /\ task_id \in DOMAIN handlers
    /\ handlers[task_id].pc = "awaiting plan"
    /\ TaskReady(NestedTaskId(task_id))
    /\ \E aw \in {Awaited(memory, NestedTaskId(task_id))} :
       \E M \in {fact_ingestion_resume(aw.memory, handlers[task_id].task.payload.fact_text,
                                       aw.frame.report)} :
       \E r \in {receive_report(
                     M, report_futures, future_result,
                     wrapper_report(handlers[task_id].task,
                                    Succeeded([status |-> "Acknowledge",
                                               hint |-> "User provided a fact"], NoLink)))} :
          /\ memory' = r.memory
          /\ report_futures' = r.report_futures
          /\ future_result' = r.future_result
          /\ received' = [received EXCEPT ![task_id] = Append(@, r.report)]
          /\ calls' = [calls EXCEPT ![NestedTaskId(task_id)] = aw.frame]
          /\ handlers' = [handlers EXCEPT ![task_id].pc = "done",
                                          ![task_id].result = "report"]
    /\ UNCHANGED <<routing, services, redis_queue, mem_call, cycle_vars, graph_writers>>

\* The command's execute_single_task returns.
IngestReturn(task_id) ==
    /\ task_id \in 1..MaxIngests
    /\ ExecuteSingleTaskReturn(task_id)

NestedNext ==
    \/ \E fact_text \in FactTexts : IngestFact(fact_text)
    \/ \E service \in NestedServices : NestedWorkerDequeue(service)
    \/ \E task_id \in DOMAIN handlers : FactIngestionStart(task_id)
    \/ \E task_id \in DOMAIN handlers :
          \E result \in handle_task(memory, handlers[task_id].task) :
             PlanHandled(task_id, result)
    \/ \E task_id \in DOMAIN handlers : FactIngestionReturn(task_id)
    \/ \E task_id \in DOMAIN calls : IngestReturn(task_id)

NestedSpec == NestedInit /\ [][NestedNext]_vars

\* The event loop runs every task that is ready -- workers, wrappers, resumed
\* handlers -- and the planner's handle_task ends; the client is not obliged to
\* send commands.
FairNestedSpec ==
    /\ NestedSpec
    /\ \A service \in NestedServices : WF_vars(NestedWorkerDequeue(service))
    /\ \A task_id \in 1..MaxIngests :
          /\ WF_vars(FactIngestionStart(task_id))
          /\ WF_vars(FactIngestionReturn(task_id))
          /\ WF_vars(\E result \in handle_task(memory, Task("create_enrichment_plan", <<>>,
                                                             NestedTaskId(task_id), NoLink)) :
                        PlanHandled(NestedTaskId(task_id), result))

\* The handler of the ingest_fact task is suspended in its nested
\* execute_single_task.
AwaitingPlan(task_id) ==
    /\ task_id \in DOMAIN handlers
    /\ handlers[task_id].pc = "awaiting plan"

\* C39: a handler that itself calls execute_single_task always receives the nested
\* Report and completes while the services are running, also with several such
\* handlers in flight and when the nested task is routed to the handler's own
\* service: nested dispatch never deadlocks.
C39_NestedDispatchCompletes ==
    \A task_id \in 1..MaxIngests :
       AwaitingPlan(task_id) ~>
           /\ task_id \in DOMAIN handlers
           /\ NestedTaskId(task_id) \in DOMAIN calls
           /\ handlers[task_id].pc = "done"
           /\ calls[NestedTaskId(task_id)].pc = "returned"
           /\ calls[NestedTaskId(task_id)].report.source_task_id = NestedTaskId(task_id)
           /\ Len(received[task_id]) = 1

\* Two handlers awaited their plan at once, with the plan tasks routed to their own
\* service, and both have completed.
C39_Witness ==
    /\ routing["create_enrichment_plan"] = "FactIngestionService"
    /\ \A task_id \in 1..2 :
          /\ task_id \in DOMAIN handlers
          /\ handlers[task_id].pc = "done"
          /\ NestedTaskId(task_id) \in DOMAIN handlers
          /\ Len(received[task_id]) = 1
    /\ \E n \in DOMAIN memory.nodes : memory.nodes[n].type = "FactNode"

(***************************************************************************)
(* The concepts of a plan, as stored in stage 4 and as looked up by recall *)
(***************************************************************************)
\* The ConceptNodes stage 4 linked the impulse of cycle c to for the term.
MaterializedAs(c, term) ==
    {n \in DOMAIN memory.nodes :
        /\ memory.nodes[n].type = "ConceptNode"
        /\ memory.nodes[n].content = lower_strip(term)
        /\ [src |-> cycles[c].impulse_node_id, dst |-> n, label |-> "CONTAINS_CONCEPT"]
               \in memory.edges}

\* The ConceptNode _conceptual_capture finds for the term of a recall_request.
LookedUp(term) ==
    {n \in {get_node_by_content(memory, term)} :
        n # Null /\ memory.nodes[n].type = "ConceptNode"}

\* C40: every concept term of a planned query that stage 4 materialized as a
\* ConceptNode is matched to that same ConceptNode by the conceptual capture of the
\* recall_request of the query: the string recall looks up is the string under
\* which the concept was stored.
C40_RecallFindsPlannedConcepts ==
    \A c \in DOMAIN cycles :
       \A k \in 1..Len(cycles[c].search_tasks) :
          \E concepts \in {cycles[c].search_tasks[k].payload.request_payload.concepts} :
             \A i \in 1..Len(concepts) :
                MaterializedAs(c, concepts[i]) # {} =>
                    LookedUp(concepts[i]) = MaterializedAs(c, concepts[i])

====
